---- MODULE Spec2Model ----
(***************************************************************************)
(* Fates of Olympus: the turn engine (engine/controller.py,                *)
(* engine/rules.py, engine/effects.py, engine/models.py).                  *)
(*                                                                         *)
(* The game snapshot (GameState) is held in the variables below; every     *)
(* engine function is an operator from a snapshot record to a snapshot     *)
(* record and an event list, as in the source.                             *)
(***************************************************************************)
EXTENDS Integers, Sequences, FiniteSets, TLC

VARIABLES
    turn,                       \* GameState.turn
    phase,                      \* GameState.phase
    players,                    \* GameState.players: [0..1 -> PlayerState]
    locations,                  \* GameState.locations: [0..2 -> LocationState]
    result,                     \* GameState.result
    next_instance_id,           \* GameState.next_instance_id
    cards_destroyed_this_game,  \* GameState.cards_destroyed_this_game
    cards_moved_this_game,      \* GameState.cards_moved_this_game
    cards_moved_this_turn,      \* GameState.cards_moved_this_turn
    silenced_cards,             \* GameState.silenced_cards
    events,                     \* event list returned by the last call
    phase_log,                  \* phases the last call assigned, in order
    turn_count                  \* loop counter of the game driver

vars == <<turn, phase, players, locations, result, next_instance_id,
          cards_destroyed_this_game, cards_moved_this_game,
          cards_moved_this_turn, silenced_cards, events, phase_log,
          turn_count>>

----------------------------------------------------------------------------
(* engine/types.py: constants *)

MAX_TURNS == 6
NUM_LOCATIONS == 3
LOCATION_CAPACITY == 4
STARTING_HAND_SIZE == 3
NUM_PLAYERS == 2

PlayerIds == 0 .. (NUM_PLAYERS - 1)
LocationIndexes == 0 .. (NUM_LOCATIONS - 1)

\* Optional values: a location index or player id that is None
NoLocation == -1
NoPlayer == -1

(* Bounds of the model *)

\* start_turn is not taken once the turn counter has reached TurnCap
TurnCap == 6
\* where step is called too, start_turn and step are not taken once the turn
\* counter has reached StepTurnCap, one turn past the last
StepTurnCap == 7
\* test_full_game_completes: the driver loop gives up after 10 iterations
DriverCap == 10

----------------------------------------------------------------------------
(* Helpers *)

\* a local variable of the code: F applied to the value v it is assigned
Let(v, F(_)) == F(v)

RECURSIVE SumSeq(_)
SumSeq(q) == IF q = <<>> THEN 0 ELSE Head(q) + SumSeq(Tail(q))

RECURSIVE Concat(_)
Concat(qq) == IF qq = <<>> THEN <<>> ELSE Head(qq) \o Concat(Tail(qq))

Reverse(q) == [i \in 1..Len(q) |-> q[Len(q) + 1 - i]]

SeqFilter(q, Keep(_)) == SelectSeq(q, Keep)

\* tuple(F(x) for x in q)
SeqMap(q, F(_)) ==
    LET f[i \in 0..Len(q)] == IF i = 0 THEN <<>> ELSE Append(f[i - 1], F(q[i]))
    IN  f[Len(q)]

InSeq(x, q) == \E i \in 1..Len(q) : q[i] = x

\* index of the first element satisfying Test, 0 when there is none
FirstIndex(q, Test(_)) ==
    LET f[i \in 1..(Len(q) + 1)] ==
            IF i > Len(q) THEN 0 ELSE IF Test(q[i]) THEN i ELSE f[i + 1]
    IN  f[1]

\* q[:i] + q[i+1:], counting from 1
RemoveAt(q, i) == SubSeq(q, 1, i - 1) \o SubSeq(q, i + 1, Len(q))

----------------------------------------------------------------------------
(* engine/models.py: CardInstance *)

CardInstance(id, def, owner, perm, ong, rev) ==
    [instance_id |-> id, card_def |-> def, owner |-> owner,
     permanent_power_modifier |-> perm, ongoing_power_modifier |-> ong,
     revealed |-> rev]

with_ongoing_power_modifier(card, modifier) ==
    [card EXCEPT !.ongoing_power_modifier = modifier]

with_revealed(card, revealed) == [card EXCEPT !.revealed = revealed]

add_permanent_power(card, amount) ==
    [card EXCEPT !.permanent_power_modifier = @ + amount]

add_ongoing_power(card, amount) ==
    [card EXCEPT !.ongoing_power_modifier = @ + amount]

(* engine/models.py: PlayerState *)

PlayerState(pid, deck, hand, energy, max_energy) ==
    [player_id |-> pid, deck |-> deck, hand |-> hand, energy |-> energy,
     max_energy |-> max_energy]

\* with_energy that adds the new energy to what the player has left
with_energy_carry(player, energy, max_energy) ==
    [player EXCEPT !.energy = @ + energy, !.max_energy = max_energy]

with_energy(player, energy, max_energy) ==
    [player EXCEPT !.energy = energy, !.max_energy = max_energy]

\* draw_card: <<new player state, drawn>> with drawn = <<>> when the deck is empty
draw_card(player) ==
    IF player.deck = <<>>
    THEN [player |-> player, drawn |-> <<>>]
    ELSE [player |-> [player EXCEPT !.deck = Tail(player.deck),
                                    !.hand = Append(player.hand, Head(player.deck))],
          drawn |-> <<Head(player.deck)>>]

\* remove_from_hand leaving the card in the hand
remove_from_hand_keep(player, instance_id) == player

remove_from_hand(player, instance_id) ==
    Let(FirstIndex(player.hand, LAMBDA c : c.instance_id = instance_id), LAMBDA i :
      IF i = 0 THEN player
      ELSE [player EXCEPT !.hand = RemoveAt(@, i)])

spend_energy(player, amount) == [player EXCEPT !.energy = @ - amount]

(* engine/models.py: LocationState *)

get_cards(location, player_id) == location.cards_by_player[player_id]

card_count(location, player_id) == Len(get_cards(location, player_id))

add_card(location, card, player_id) ==
    [location EXCEPT !.cards_by_player[player_id] = Append(@, card)]

\* all_cards: the lists of cards_by_player in the order of its keys, 0 then 1
all_cards(location) == get_cards(location, 0) \o get_cards(location, 1)

\* "for card in location.all_cards(): if card.instance_id == instance_id"
location_has_card(location, instance_id) ==
    Let(all_cards(location), LAMBDA q :
      \E i \in 1..Len(q) : q[i].instance_id = instance_id)

\* remove_card that reports the card as removed and leaves it in the list
remove_card_keep(location, instance_id) ==
    Let(FirstIndex(get_cards(location, 0) \o get_cards(location, 1),
                   LAMBDA c : c.instance_id = instance_id),
        LAMBDA i :
      IF i # 0
      THEN [location |-> location,
            removed |-> <<(get_cards(location, 0) \o get_cards(location, 1))[i]>>]
      ELSE [location |-> location, removed |-> <<>>])

\* remove_card: the first card with this id, in the order of all_cards, is
\* removed; removed is <<card>>, or <<>> for None
remove_card(location, instance_id) ==
    Let(FirstIndex(get_cards(location, 0), LAMBDA c : c.instance_id = instance_id),
        LAMBDA i0 :
    Let(FirstIndex(get_cards(location, 1), LAMBDA c : c.instance_id = instance_id),
        LAMBDA i1 :
      IF i0 # 0
      THEN [location |-> [location EXCEPT !.cards_by_player[0] = RemoveAt(@, i0)],
            removed |-> <<get_cards(location, 0)[i0]>>]
      ELSE IF i1 # 0
      THEN [location |-> [location EXCEPT !.cards_by_player[1] = RemoveAt(@, i1)],
            removed |-> <<get_cards(location, 1)[i1]>>]
      ELSE [location |-> location, removed |-> <<>>]))

\* the replacement update_card and the effects make in one list of cards
replace_card(cards, updated_card) ==
    SeqMap(cards, LAMBDA c : IF c.instance_id = updated_card.instance_id
                             THEN updated_card ELSE c)

update_card(location, updated_card) ==
    [location EXCEPT !.cards_by_player[0] = replace_card(@, updated_card),
                     !.cards_by_player[1] = replace_card(@, updated_card)]

create_empty_location(index) ==
    [index |-> index, cards_by_player |-> (0 :> <<>>) @@ (1 :> <<>>)]

create_initial_locations ==
    (0 :> create_empty_location(0)) @@ (1 :> create_empty_location(1))
        @@ (2 :> create_empty_location(2))

----------------------------------------------------------------------------
(* engine/models.py: GameState *)

get_player(s, player_id) == s.players[player_id]

get_location(s, index) == s.locations[index]

with_player(s, player_id, player_state) ==
    [s EXCEPT !.players[player_id] = player_state]

with_location(s, index, location_state) ==
    [s EXCEPT !.locations[index] = location_state]

\* with_turn leaving the turn counter as it is
with_turn_unchanged(s, t) == s

with_turn(s, t) == [s EXCEPT !.turn = t]

with_phase(s, ph) == [s EXCEPT !.phase = ph]

with_result(s, r) == [s EXCEPT !.result = r]

\* with_next_instance_id leaving the counter as it is
with_next_instance_id_same(s, next_id) == s

with_next_instance_id(s, next_id) == [s EXCEPT !.next_instance_id = next_id]

\* with_card_destroyed that records nothing
with_card_destroyed_unrecorded(s, instance_id) == s

with_card_destroyed(s, instance_id) ==
    [s EXCEPT !.cards_destroyed_this_game = Append(@, instance_id)]

\* with_card_moved that keeps the record of the turn only
with_card_moved_this_turn(s, instance_id) ==
    [s EXCEPT !.cards_moved_this_turn = Append(@, instance_id)]

with_card_moved(s, instance_id) ==
    [s EXCEPT !.cards_moved_this_game = Append(@, instance_id),
              !.cards_moved_this_turn = Append(@, instance_id)]

\* clear_turn_tracking that keeps the record of the turn
clear_turn_tracking_kept(s) == s

clear_turn_tracking(s) == [s EXCEPT !.cards_moved_this_turn = <<>>]

with_silenced_card(s, instance_id) ==
    IF InSeq(instance_id, s.silenced_cards) THEN s
    ELSE [s EXCEPT !.silenced_cards = Append(@, instance_id)]

\* is_silenced that finds no card silenced
is_silenced_never(s, instance_id) == FALSE

is_silenced(s, instance_id) == InSeq(instance_id, s.silenced_cards)

location_is_full(s, location_idx, player_id) ==
    card_count(get_location(s, location_idx), player_id) >= LOCATION_CAPACITY

has_destroyed_card_this_game(s) == Len(s.cards_destroyed_this_game) > 0

has_moved_card_this_game(s) == Len(s.cards_moved_this_game) > 0

has_moved_card_this_turn(s) == Len(s.cards_moved_this_turn) > 0

\* "for location in self.locations: for card in location.all_cards()"
RECURSIVE board_cards_from(_, _)
board_cards_from(s, l) ==
    IF l >= NUM_LOCATIONS THEN <<>>
    ELSE all_cards(get_location(s, l)) \o board_cards_from(s, l + 1)

all_board_cards(s) == board_cards_from(s, 0)

\* the cards in the order find_card_by_instance scans them:
\* hand then deck of each player, then the locations
find_scan_order(s) ==
    get_player(s, 0).hand \o get_player(s, 0).deck
        \o get_player(s, 1).hand \o get_player(s, 1).deck
        \o all_board_cards(s)

\* find_card_by_instance: <<card>> for the first match, <<>> for None
find_card_by_instance(s, instance_id) ==
    Let(find_scan_order(s), LAMBDA q :
    Let(FirstIndex(q, LAMBDA c : c.instance_id = instance_id), LAMBDA i :
      IF i = 0 THEN <<>> ELSE <<q[i]>>))

\* find_card_location: the index of the first location holding the id,
\* NoLocation for None
RECURSIVE find_location_from(_, _, _)
find_location_from(s, instance_id, l) ==
    IF l >= NUM_LOCATIONS THEN NoLocation
    ELSE IF location_has_card(get_location(s, l), instance_id)
    THEN get_location(s, l).index
    ELSE find_location_from(s, instance_id, l + 1)

find_card_location(s, instance_id) == find_location_from(s, instance_id, 0)

----------------------------------------------------------------------------
(* engine/effects.py: effect values.  An effect is a record whose field    *)
(* "type" names its class; the other fields are the fields of the class.   *)

AddPowerEffect(target, amount) ==
    [type |-> "AddPowerEffect", target |-> target, amount |-> amount]

AddOngoingPowerEffect(target, amount) ==
    [type |-> "AddOngoingPowerEffect", target |-> target, amount |-> amount]

ConditionalOngoingPowerEffect(target, amount, condition) ==
    [type |-> "ConditionalOngoingPowerEffect", target |-> target,
     amount |-> amount, condition |-> condition]

MoveCardEffect(target, to_other_location, destination) ==
    [type |-> "MoveCardEffect", target |-> target,
     to_other_location |-> to_other_location, destination |-> destination]

DestroyCardEffect(target) == [type |-> "DestroyCardEffect", target |-> target]

DestroyAndBuffEffect(destroy_target, buff_target, buff_amount) ==
    [type |-> "DestroyAndBuffEffect", destroy_target |-> destroy_target,
     buff_target |-> buff_target, buff_amount |-> buff_amount]

DestroyAndGainPowerEffect(destroy_target) ==
    [type |-> "DestroyAndGainPowerEffect", destroy_target |-> destroy_target]

ConditionalPowerEffect(target, amount, condition) ==
    [type |-> "ConditionalPowerEffect", target |-> target, amount |-> amount,
     condition |-> condition]

SilenceOngoingEffect(target) == [type |-> "SilenceOngoingEffect", target |-> target]

StealPowerEffect(target, amount) ==
    [type |-> "StealPowerEffect", target |-> target, amount |-> amount]

ScalingOngoingPowerEffect(target, per_card_amount, count_filter) ==
    [type |-> "ScalingOngoingPowerEffect", target |-> target,
     per_card_amount |-> per_card_amount, count_filter |-> count_filter]

ScalingPowerEffect(target, per_destroyed_amount) ==
    [type |-> "ScalingPowerEffect", target |-> target,
     per_destroyed_amount |-> per_destroyed_amount]

ReviveEffect(base_spirit_power) ==
    [type |-> "ReviveEffect", base_spirit_power |-> base_spirit_power]

\* ReviveEffect.base_spirit_power default
BASE_SPIRIT_POWER == 2

(* engine/models.py: CardDef *)

CardDef(id, cost, base_power, ability_type, effects, tags) ==
    [id |-> id, cost |-> cost, base_power |-> base_power,
     ability_type |-> ability_type, effects |-> effects, tags |-> tags]

\* The card catalog (cards.json is data outside the engine): the cards the
\* engine's tests use, with the costs, powers and abilities the tests state.
ALL_CARDS ==
    { CardDef("hoplite", 1, 2, "VANILLA", <<>>, {}),
      CardDef("argive_scout", 2, 3, "VANILLA", <<>>, {}),
      CardDef("satyr", 1, 1, "ON_REVEAL",
              <<AddPowerEffect("ONE_SAME_LOCATION_FRIENDLY", 1)>>, {}),
      CardDef("harpies", 1, 2, "ON_REVEAL",
              <<AddPowerEffect("ONE_SAME_LOCATION_ENEMY", -1)>>, {}),
      CardDef("naiad_nymph", 1, 1, "ONGOING",
              <<AddOngoingPowerEffect("SAME_LOCATION_FRIENDLY", 1)>>, {}),
      CardDef("shade", 1, 2, "ON_REVEAL",
              <<StealPowerEffect("ONE_SAME_LOCATION_ENEMY", 3),
                DestroyCardEffect("SELF")>>, {"Destroy"}),
      CardDef("iris", 2, 2, "ON_REVEAL",
              <<MoveCardEffect("SELF", TRUE, NoLocation)>>, {}),
      CardDef("hermes", 2, 2, "ON_REVEAL",
              <<MoveCardEffect("ONE_SAME_LOCATION_FRIENDLY", TRUE, NoLocation)>>, {}),
      CardDef("hades", 5, 6, "ON_REVEAL",
              <<ReviveEffect(BASE_SPIRIT_POWER)>>, {"Destroy"}),
      CardDef("ares", 3, 4, "ONGOING",
              <<ConditionalOngoingPowerEffect("SAME_LOCATION_FRIENDLY", 1,
                                              "location_full")>>, {}),
      CardDef("athena", 3, 2, "ONGOING",
              <<ScalingOngoingPowerEffect("SAME_LOCATION_FRIENDLY", 1,
                                          "SAME_LOCATION_FRIENDLY")>>, {}),
      CardDef("gorgon_glare", 2, 2, "ONGOING",
              <<SilenceOngoingEffect("SAME_LOCATION_ENEMY")>>, {}),
      CardDef("underworld_gate", 3, 2, "ON_REVEAL",
              <<ScalingPowerEffect("SELF", 2)>>, {}) }

\* CARD_REGISTRY: the definitions by id ("for card in cards: by id")
RECURSIVE registry_of(_)
registry_of(defs) ==
    IF defs = {} THEN <<>>
    ELSE LET d == CHOOSE x \in defs : TRUE
         IN  (d.id :> d) @@ registry_of(defs \ {d})

\* two definitions as _parse_effect builds them from card data that gives
\* a move or a destroy effect an enemy target filter: a card that moves, and
\* a card that destroys, the first enemy card at its location on reveal
DISPLACING_CARDS ==
    { CardDef("enemy_mover", 1, 1, "ON_REVEAL",
              <<MoveCardEffect("ONE_SAME_LOCATION_ENEMY", TRUE, NoLocation)>>, {}),
      CardDef("enemy_destroyer", 1, 1, "ON_REVEAL",
              <<DestroyCardEffect("ONE_SAME_LOCATION_ENEMY")>>, {"Destroy"}) }

CARD_REGISTRY == registry_of(ALL_CARDS \cup DISPLACING_CARDS)

\* get_card_def: <<def>> for a known id, <<>> for None
get_card_def(card_id) ==
    IF card_id \in DOMAIN CARD_REGISTRY THEN <<CARD_REGISTRY[card_id]>> ELSE <<>>

\* card.card_def: the definition a card instance refers to
card_def(card) == CARD_REGISTRY[card.card_def]

effective_power(card) ==
    card_def(card).base_power + card.permanent_power_modifier
        + card.ongoing_power_modifier

total_power(location, player_id) ==
    SumSeq(SeqMap(get_cards(location, player_id), effective_power))

----------------------------------------------------------------------------
(* engine/effects.py: _resolve_targets *)

\* the cards of one player at the listed locations, last location first
RECURSIVE cards_of_player_at_backwards(_, _, _)
cards_of_player_at_backwards(s, locs, player_id) ==
    IF locs = <<>> THEN <<>>
    ELSE cards_of_player_at_backwards(s, Tail(locs), player_id)
            \o get_cards(get_location(s, Head(locs)), player_id)

\* the cards of one player at the listed locations, in the given order
RECURSIVE cards_of_player_at(_, _, _)
cards_of_player_at(s, locs, player_id) ==
    IF locs = <<>> THEN <<>>
    ELSE get_cards(get_location(s, Head(locs)), player_id)
            \o cards_of_player_at(s, Tail(locs), player_id)

\* enumerate(state.locations)
AllLocations == <<0, 1, 2>>

\* _resolve_targets, with the source's location already looked up
targets_at(s, source_card, source_player, target_filter, source_location) ==
    LET enemy_player == 1 - source_player
        NotSource(c) == c.instance_id # source_card.instance_id
        First(q) == IF q = <<>> THEN <<>> ELSE <<q[1]>>
    IN  CASE target_filter = "SELF" -> <<source_card>>
          [] target_filter = "SAME_LOCATION_FRIENDLY" ->
                IF source_location = NoLocation THEN <<>>
                ELSE SeqFilter(get_cards(get_location(s, source_location), source_player),
                               NotSource)
          [] target_filter = "SAME_LOCATION_ENEMY" ->
                IF source_location = NoLocation THEN <<>>
                ELSE get_cards(get_location(s, source_location), enemy_player)
          [] target_filter = "SAME_LOCATION_ALL" ->
                IF source_location = NoLocation THEN <<>>
                ELSE SeqFilter(all_cards(get_location(s, source_location)), NotSource)
          [] target_filter = "ALL_FRIENDLY" ->
                SeqFilter(cards_of_player_at(s, AllLocations, source_player), NotSource)
          [] target_filter = "ALL_ENEMY" ->
                cards_of_player_at(s, AllLocations, enemy_player)
          [] target_filter = "ALL_CARDS" ->
                SeqFilter(all_board_cards(s), NotSource)
          [] target_filter = "OTHER_LOCATIONS_FRIENDLY" ->
                IF source_location = NoLocation
                THEN cards_of_player_at(s, AllLocations, source_player)
                ELSE cards_of_player_at(
                        s,
                        SeqFilter(AllLocations,
                                  LAMBDA l : get_location(s, l).index # source_location),
                        source_player)
          [] target_filter = "LEFTMOST_FRIENDLY" ->
                First(cards_of_player_at(s, AllLocations, source_player))
          [] target_filter = "RIGHTMOST_FRIENDLY" ->
                First(Reverse(cards_of_player_at(s, AllLocations, source_player)))
          [] target_filter = "ONE_SAME_LOCATION_FRIENDLY" ->
                IF source_location = NoLocation THEN <<>>
                ELSE First(SeqFilter(get_cards(get_location(s, source_location),
                                               source_player), NotSource))
          [] target_filter = "ONE_SAME_LOCATION_ENEMY" ->
                IF source_location = NoLocation THEN <<>>
                ELSE First(get_cards(get_location(s, source_location), enemy_player))
          [] target_filter = "FRIENDLY_WITH_DESTROY_TAG" ->
                SeqFilter(cards_of_player_at(s, AllLocations, source_player),
                          LAMBDA c : "Destroy" \in card_def(c).tags)
          [] OTHER -> <<>>

resolve_targets(s, source_card, source_player, target_filter) ==
    targets_at(s, source_card, source_player, target_filter,
               find_card_location(s, source_card.instance_id))

----------------------------------------------------------------------------
(* engine/events.py: event values *)

PowerChangedEvent(card_instance_id, old_power, new_power, source_card_id) ==
    [type |-> "PowerChangedEvent", card_instance_id |-> card_instance_id,
     old_power |-> old_power, new_power |-> new_power,
     source_card_id |-> source_card_id]

CardMovedEvent(card_instance_id, from_location, to_location, source_card_id) ==
    [type |-> "CardMovedEvent", card_instance_id |-> card_instance_id,
     from_location |-> from_location, to_location |-> to_location,
     source_card_id |-> source_card_id]

CardDestroyedEvent(card_instance_id, location, source_card_id) ==
    [type |-> "CardDestroyedEvent", card_instance_id |-> card_instance_id,
     location |-> location, source_card_id |-> source_card_id]

CardPlayedEvent(player_id, card_instance_id, location) ==
    [type |-> "CardPlayedEvent", player_id |-> player_id,
     card_instance_id |-> card_instance_id, location |-> location]

CardRevealedEvent(card_instance_id, location, player_id) ==
    [type |-> "CardRevealedEvent", card_instance_id |-> card_instance_id,
     location |-> location, player_id |-> player_id]

EnergySpentEvent(player_id, amount, remaining) ==
    [type |-> "EnergySpentEvent", player_id |-> player_id, amount |-> amount,
     remaining |-> remaining]

PlayerPassedEvent(player_id) == [type |-> "PlayerPassedEvent", player_id |-> player_id]

ActionInvalidEvent(player_id, reason) ==
    [type |-> "ActionInvalidEvent", player_id |-> player_id, reason |-> reason]

GameStartedEvent == [type |-> "GameStartedEvent"]

TurnStartedEvent(t) == [type |-> "TurnStartedEvent", turn |-> t]

TurnEndedEvent(t) == [type |-> "TurnEndedEvent", turn |-> t]

EnergySetEvent(player_id, energy) ==
    [type |-> "EnergySetEvent", player_id |-> player_id, energy |-> energy]

CardDrawnEvent(player_id, card_instance_id) ==
    [type |-> "CardDrawnEvent", player_id |-> player_id,
     card_instance_id |-> card_instance_id]

GameEndedEvent(res, location_winners, location_powers, total) ==
    [type |-> "GameEndedEvent", result |-> res,
     location_winners |-> location_winners,
     location_powers |-> location_powers, total_power |-> total]

----------------------------------------------------------------------------
(* engine/effects.py: the effects applied on reveal.  Every apply returns  *)
(* the record [state, events].                                             *)

\* the loop "for target_card in targets" that adds amount to the permanent
\* modifier of each target still on the board
RECURSIVE add_permanent_power_loop(_, _, _, _, _)
add_permanent_power_loop(s, evs, targets, amount, source_card) ==
    IF targets = <<>> THEN [state |-> s, events |-> evs]
    ELSE Let(
      Let(find_card_location(s, Head(targets).instance_id), LAMBDA location_idx :
      Let(find_card_by_instance(s, Head(targets).instance_id), LAMBDA found :
        IF location_idx = NoLocation \/ found = <<>>
        THEN [state |-> s, events |-> evs]
        ELSE
          Let(add_permanent_power(found[1], amount), LAMBDA updated_card :
            [state |-> with_location(s, location_idx,
                          update_card(get_location(s, location_idx), updated_card)),
             events |-> Append(evs, PowerChangedEvent(Head(targets).instance_id,
                                                      effective_power(found[1]),
                                                      effective_power(updated_card),
                                                      source_card.instance_id))]))),
      LAMBDA r : add_permanent_power_loop(r.state, r.events, Tail(targets),
                                          amount, source_card))

AddPowerEffect_apply(effect, s, source_card, source_player) ==
    add_permanent_power_loop(
        s, <<>>, resolve_targets(s, source_card, source_player, effect.target),
        effect.amount, source_card)

\* move_destination that takes the last free location instead of the first
move_destination_last(effect, s, target_card, from_location_idx) ==
    LET Free(l) == /\ l # from_location_idx
                   /\ card_count(get_location(s, l), target_card.owner)
                          < LOCATION_CAPACITY
    IN  IF effect.to_other_location /\ \E l \in LocationIndexes : Free(l)
        THEN CHOOSE l \in LocationIndexes :
                Free(l) /\ \A k \in (l + 1)..(NUM_LOCATIONS - 1) : ~Free(k)
        ELSE effect.destination

\* MoveCardEffect.apply: the destination chosen for one target
move_destination(effect, s, target_card, from_location_idx) ==
    LET Free(l) == /\ l # from_location_idx
                   /\ card_count(get_location(s, l), target_card.owner)
                          < LOCATION_CAPACITY
    IN  IF effect.to_other_location /\ \E l \in LocationIndexes : Free(l)
        THEN CHOOSE l \in LocationIndexes :
                Free(l) /\ \A k \in 0..(l - 1) : ~Free(k)
        ELSE effect.destination

\* MoveCardEffect.apply: "for target_card in targets"
RECURSIVE move_loop(_, _, _, _, _)
move_loop(effect, s, evs, targets, source_card) ==
    IF targets = <<>> THEN [state |-> s, events |-> evs]
    ELSE Let(
      Let(Head(targets), LAMBDA target_card :
      Let(find_card_location(s, target_card.instance_id), LAMBDA from_location_idx :
      Let(move_destination(effect, s, target_card, from_location_idx), LAMBDA dest :
        IF \/ from_location_idx = NoLocation
           \/ dest = NoLocation
           \/ from_location_idx = dest
        THEN [state |-> s, events |-> evs]
        ELSE IF card_count(get_location(s, dest), target_card.owner)
                    >= LOCATION_CAPACITY
        THEN [state |-> s, events |-> evs]
        ELSE
          Let(remove_card(get_location(s, from_location_idx),
                          target_card.instance_id), LAMBDA rem :
            IF rem.removed = <<>> THEN [state |-> s, events |-> evs]
            ELSE
              Let(with_location(s, from_location_idx, rem.location), LAMBDA s1 :
                [state |->
                    with_card_moved(
                        with_location(s1, dest,
                            add_card(get_location(s1, dest), rem.removed[1],
                                     rem.removed[1].owner)),
                        target_card.instance_id),
                 events |-> Append(evs, CardMovedEvent(target_card.instance_id,
                                                       from_location_idx, dest,
                                                       source_card.instance_id))]))))),
      LAMBDA r : move_loop(effect, r.state, r.events, Tail(targets), source_card))

MoveCardEffect_apply(effect, s, source_card, source_player) ==
    move_loop(effect, s, <<>>,
              resolve_targets(s, source_card, source_player, effect.target),
              source_card)

\* the removal of one card from the board, recorded as destroyed: the steps
\* shared by the three destroying effects.  <<>> when the card is not found
destroy_one(s, target_card, source_card) ==
    Let(find_card_location(s, target_card.instance_id), LAMBDA location_idx :
      IF location_idx = NoLocation THEN <<>>
      ELSE
        Let(remove_card(get_location(s, location_idx), target_card.instance_id),
            LAMBDA rem :
          IF rem.removed = <<>> THEN <<>>
          ELSE << [state |-> with_card_destroyed(
                                with_location(s, location_idx, rem.location),
                                target_card.instance_id),
                   events |-> <<CardDestroyedEvent(target_card.instance_id,
                                                   location_idx,
                                                   source_card.instance_id)>>] >>))

\* DestroyCardEffect.apply: "for target_card in targets"
RECURSIVE destroy_loop(_, _, _, _)
destroy_loop(s, evs, targets, source_card) ==
    IF targets = <<>> THEN [state |-> s, events |-> evs]
    ELSE Let(destroy_one(s, Head(targets), source_card), LAMBDA d :
           IF d = <<>>
           THEN destroy_loop(s, evs, Tail(targets), source_card)
           ELSE destroy_loop(d[1].state, evs \o d[1].events, Tail(targets),
                             source_card))

DestroyCardEffect_apply(effect, s, source_card, source_player) ==
    destroy_loop(s, <<>>,
                 resolve_targets(s, source_card, source_player, effect.target),
                 source_card)

\* StealPowerEffect.apply without its second half: the source gains nothing
steal_gain_nothing(effect, r, source_card) == r

\* the buff loop without its break: every resolved target is buffed
buff_one_loop_unbroken(s, evs, targets, amount, source_card) ==
    add_permanent_power_loop(s, evs, targets, amount, source_card)

\* the buff loop of DestroyAndBuffEffect.apply: the first target that is
\* still on the board is buffed, then the loop breaks
RECURSIVE buff_one_loop(_, _, _, _, _)
buff_one_loop(s, evs, targets, amount, source_card) ==
    IF targets = <<>> THEN [state |-> s, events |-> evs]
    ELSE
      Let(find_card_location(s, Head(targets).instance_id), LAMBDA buff_loc_idx :
      Let(find_card_by_instance(s, Head(targets).instance_id), LAMBDA found :
        IF buff_loc_idx = NoLocation \/ found = <<>>
        THEN buff_one_loop(s, evs, Tail(targets), amount, source_card)
        ELSE
          Let(add_permanent_power(found[1], amount), LAMBDA updated_card :
            [state |-> with_location(s, buff_loc_idx,
                          update_card(get_location(s, buff_loc_idx), updated_card)),
             events |-> Append(evs, PowerChangedEvent(Head(targets).instance_id,
                                                      effective_power(found[1]),
                                                      effective_power(updated_card),
                                                      source_card.instance_id))])))

DestroyAndBuffEffect_apply(effect, s, source_card, source_player) ==
    Let(resolve_targets(s, source_card, source_player, effect.destroy_target),
        LAMBDA destroy_targets :
      IF destroy_targets = <<>> THEN [state |-> s, events |-> <<>>]
      ELSE
        Let(destroy_one(s, destroy_targets[1], source_card), LAMBDA d :
          IF d = <<>> THEN [state |-> s, events |-> <<>>]
          ELSE buff_one_loop(
                  d[1].state, d[1].events,
                  resolve_targets(d[1].state, source_card, source_player,
                                  effect.buff_target),
                  effect.buff_amount, source_card)))

DestroyAndGainPowerEffect_apply(effect, s, source_card, source_player) ==
    Let(resolve_targets(s, source_card, source_player, effect.destroy_target),
        LAMBDA destroy_targets :
      IF find_card_location(s, source_card.instance_id) = NoLocation
      THEN [state |-> s, events |-> <<>>]
      ELSE IF destroy_targets = <<>> THEN [state |-> s, events |-> <<>>]
      ELSE
        Let(destroy_one(s, destroy_targets[1], source_card), LAMBDA d :
          IF d = <<>> THEN [state |-> s, events |-> <<>>]
          ELSE
            Let(find_card_by_instance(d[1].state, source_card.instance_id),
                LAMBDA found :
            Let(find_card_location(d[1].state, source_card.instance_id),
                LAMBDA source_loc_idx :
              IF found = <<>> \/ source_loc_idx = NoLocation THEN d[1]
              ELSE
                Let(add_permanent_power(found[1],
                                        effective_power(destroy_targets[1])),
                    LAMBDA updated_source :
                  [state |-> with_location(d[1].state, source_loc_idx,
                                update_card(get_location(d[1].state, source_loc_idx),
                                            updated_source)),
                   events |-> Append(d[1].events,
                                 PowerChangedEvent(source_card.instance_id,
                                                   effective_power(found[1]),
                                                   effective_power(updated_source),
                                                   source_card.instance_id))])))))

\* _check_condition that takes a name it does not know for false
check_condition_closed(effect, s, source_card, source_player) ==
    Let(find_card_location(s, source_card.instance_id), LAMBDA source_location :
      CASE effect.condition = "only_card_here" ->
              /\ source_location # NoLocation
              /\ card_count(get_location(s, source_location), source_player) = 1
        [] effect.condition = "destroyed_this_game" -> has_destroyed_card_this_game(s)
        [] effect.condition = "moved_this_turn" -> has_moved_card_this_turn(s)
        [] effect.condition = "moved_this_game" -> has_moved_card_this_game(s)
        [] effect.condition = "has_empty_slot" ->
              /\ source_location # NoLocation
              /\ ~location_is_full(s, source_location, source_player)
        [] OTHER -> FALSE)

\* ConditionalPowerEffect._check_condition
check_condition(effect, s, source_card, source_player) ==
    Let(find_card_location(s, source_card.instance_id), LAMBDA source_location :
      CASE effect.condition = "only_card_here" ->
              /\ source_location # NoLocation
              /\ card_count(get_location(s, source_location), source_player) = 1
        [] effect.condition = "destroyed_this_game" -> has_destroyed_card_this_game(s)
        [] effect.condition = "moved_this_turn" -> has_moved_card_this_turn(s)
        [] effect.condition = "moved_this_game" -> has_moved_card_this_game(s)
        [] effect.condition = "has_empty_slot" ->
              /\ source_location # NoLocation
              /\ ~location_is_full(s, source_location, source_player)
        [] OTHER -> TRUE)

ConditionalPowerEffect_apply(effect, s, source_card, source_player) ==
    IF ~check_condition(effect, s, source_card, source_player)
    THEN [state |-> s, events |-> <<>>]
    ELSE add_permanent_power_loop(
            s, <<>>, resolve_targets(s, source_card, source_player, effect.target),
            effect.amount, source_card)

RECURSIVE silence_loop(_, _)
silence_loop(s, targets) ==
    IF targets = <<>> THEN s
    ELSE silence_loop(with_silenced_card(s, Head(targets).instance_id), Tail(targets))

\* SilenceOngoingEffect.get_silenced_cards
get_silenced_cards(effect, s, source_card, source_player) ==
    resolve_targets(s, source_card, source_player, effect.target)

SilenceOngoingEffect_apply(effect, s, source_card, source_player) ==
    [state |-> silence_loop(s, resolve_targets(s, source_card, source_player,
                                               effect.target)),
     events |-> <<>>]

\* StealPowerEffect.apply, second half: the stolen amount is added to the
\* source when the source is still on the board
steal_gain(effect, r, source_card) ==
    Let(find_card_location(r.state, source_card.instance_id), LAMBDA source_loc_idx :
    Let(find_card_by_instance(r.state, source_card.instance_id), LAMBDA found_source :
      IF source_loc_idx = NoLocation \/ found_source = <<>> THEN r
      ELSE
        Let(add_permanent_power(found_source[1], effect.amount),
            LAMBDA updated_source :
          [state |-> with_location(r.state, source_loc_idx,
                        update_card(get_location(r.state, source_loc_idx),
                                    updated_source)),
           events |-> Append(r.events,
                         PowerChangedEvent(source_card.instance_id,
                                           effective_power(found_source[1]),
                                           effective_power(updated_source),
                                           source_card.instance_id))])))

StealPowerEffect_apply(effect, s, source_card, source_player) ==
    Let(resolve_targets(s, source_card, source_player, effect.target),
        LAMBDA targets :
      IF targets = <<>> THEN [state |-> s, events |-> <<>>]
      ELSE
        Let(find_card_location(s, targets[1].instance_id), LAMBDA target_loc_idx :
        Let(find_card_by_instance(s, targets[1].instance_id), LAMBDA found :
          IF target_loc_idx = NoLocation \/ found = <<>>
          THEN [state |-> s, events |-> <<>>]
          ELSE
            Let(add_permanent_power(found[1], -effect.amount),
                LAMBDA updated_target :
              steal_gain(
                  effect,
                  [state |-> with_location(s, target_loc_idx,
                                update_card(get_location(s, target_loc_idx),
                                            updated_target)),
                   events |-> <<PowerChangedEvent(targets[1].instance_id,
                                                  effective_power(found[1]),
                                                  effective_power(updated_target),
                                                  source_card.instance_id)>>],
                  source_card)))))

\* ScalingPowerEffect.apply that adds the amount once, whatever was destroyed
ScalingPowerEffect_apply_flat(effect, s, source_card, source_player) ==
    add_permanent_power_loop(
        s, <<>>, resolve_targets(s, source_card, source_player, effect.target),
        effect.per_destroyed_amount, source_card)

ScalingPowerEffect_apply(effect, s, source_card, source_player) ==
    LET destroyed_count == Len(s.cards_destroyed_this_game)
        total_bonus == destroyed_count * effect.per_destroyed_amount
    IN  IF total_bonus = 0 THEN [state |-> s, events |-> <<>>]
        ELSE add_permanent_power_loop(
                s, <<>>,
                resolve_targets(s, source_card, source_player, effect.target),
                total_bonus, source_card)

\* ReviveEffect.apply without "Must have destroyed at least one card"
ReviveEffect_apply_always(effect, s, source_card, source_player) ==
    Let(find_card_location(s, source_card.instance_id), LAMBDA source_loc_idx :
      IF source_loc_idx = NoLocation THEN [state |-> s, events |-> <<>>]
      ELSE IF card_count(get_location(s, source_loc_idx), source_player)
                  >= LOCATION_CAPACITY
      THEN [state |-> s, events |-> <<>>]
      ELSE [state |->
               with_next_instance_id(
                   with_location(s, source_loc_idx,
                       add_card(get_location(s, source_loc_idx),
                                CardInstance(s.next_instance_id, "shade",
                                             source_player,
                                             effect.base_spirit_power
                                               + Len(s.cards_destroyed_this_game),
                                             0, TRUE),
                                source_player)),
                   s.next_instance_id + 1),
            events |-> <<>>])

ReviveEffect_apply(effect, s, source_card, source_player) ==
    Let(find_card_location(s, source_card.instance_id), LAMBDA source_loc_idx :
    Let(get_card_def("shade"), LAMBDA spirit_def :
      IF source_loc_idx = NoLocation THEN [state |-> s, events |-> <<>>]
      ELSE IF card_count(get_location(s, source_loc_idx), source_player)
                  >= LOCATION_CAPACITY
      THEN [state |-> s, events |-> <<>>]
      ELSE IF s.cards_destroyed_this_game = <<>> THEN [state |-> s, events |-> <<>>]
      ELSE IF spirit_def = <<>> THEN [state |-> s, events |-> <<>>]
      ELSE
        LET destroyed_count == Len(s.cards_destroyed_this_game)
            spirit_bonus == effect.base_spirit_power + destroyed_count
            new_instance_id == s.next_instance_id
        IN  [state |->
                with_next_instance_id(
                    with_location(s, source_loc_idx,
                        add_card(get_location(s, source_loc_idx),
                                 CardInstance(new_instance_id, spirit_def[1].id,
                                              source_player, spirit_bonus, 0, TRUE),
                                 source_player)),
                    new_instance_id + 1),
             events |-> <<>>]))

\* _reveal_card: the dispatch "effect.apply(state, current_card, player_id)"
\* for the effect classes the isinstance test lists
IsOnRevealEffect(effect) ==
    effect.type \in {"AddPowerEffect", "MoveCardEffect", "DestroyCardEffect",
                     "DestroyAndBuffEffect", "DestroyAndGainPowerEffect",
                     "ConditionalPowerEffect", "StealPowerEffect",
                     "ScalingPowerEffect", "ReviveEffect", "SilenceOngoingEffect"}

effect_apply(effect, s, source_card, source_player) ==
    CASE effect.type = "AddPowerEffect" ->
            AddPowerEffect_apply(effect, s, source_card, source_player)
      [] effect.type = "MoveCardEffect" ->
            MoveCardEffect_apply(effect, s, source_card, source_player)
      [] effect.type = "DestroyCardEffect" ->
            DestroyCardEffect_apply(effect, s, source_card, source_player)
      [] effect.type = "DestroyAndBuffEffect" ->
            DestroyAndBuffEffect_apply(effect, s, source_card, source_player)
      [] effect.type = "DestroyAndGainPowerEffect" ->
            DestroyAndGainPowerEffect_apply(effect, s, source_card, source_player)
      [] effect.type = "ConditionalPowerEffect" ->
            ConditionalPowerEffect_apply(effect, s, source_card, source_player)
      [] effect.type = "StealPowerEffect" ->
            StealPowerEffect_apply(effect, s, source_card, source_player)
      [] effect.type = "ScalingPowerEffect" ->
            ScalingPowerEffect_apply(effect, s, source_card, source_player)
      [] effect.type = "ReviveEffect" ->
            ReviveEffect_apply(effect, s, source_card, source_player)
      [] effect.type = "SilenceOngoingEffect" ->
            SilenceOngoingEffect_apply(effect, s, source_card, source_player)

----------------------------------------------------------------------------
(* engine/effects.py: compute_ongoing_effects *)

\* check_condition that is met wherever the source card lies
check_ongoing_condition_always(effect, s, source_card, source_player) ==
    find_card_location(s, source_card.instance_id) # NoLocation

\* ConditionalOngoingPowerEffect.check_condition
check_ongoing_condition(effect, s, source_card, source_player) ==
    Let(find_card_location(s, source_card.instance_id), LAMBDA source_location :
      IF source_location = NoLocation THEN FALSE
      ELSE IF effect.condition = "location_full"
           THEN location_is_full(s, source_location, source_player)
           ELSE TRUE)

\* get_affected_cards of the three ongoing power effect classes
get_affected_cards(effect, s, source_card, source_player) ==
    IF effect.type = "ConditionalOngoingPowerEffect"
       /\ ~check_ongoing_condition(effect, s, source_card, source_player)
    THEN <<>>
    ELSE resolve_targets(s, source_card, source_player, effect.target)

\* get_scaling_amount that does not count the cards
get_scaling_amount_flat(effect, s, source_card, source_player) ==
    effect.per_card_amount

\* ScalingOngoingPowerEffect.get_scaling_amount
get_scaling_amount(effect, s, source_card, source_player) ==
    Len(resolve_targets(s, source_card, source_player, effect.count_filter))
        * effect.per_card_amount

\* reset_cards that leaves the ongoing modifiers as they are
reset_cards_kept(cards) == cards

\* first step: every board card's ongoing modifier is reset to 0
reset_cards(cards) == SeqMap(cards, LAMBDA c : with_ongoing_power_modifier(c, 0))

RECURSIVE reset_ongoing_from(_, _)
reset_ongoing_from(s, loc_idx) ==
    IF loc_idx >= NUM_LOCATIONS THEN s
    ELSE reset_ongoing_from(
            with_location(s, loc_idx,
                [index |-> loc_idx,
                 cards_by_player |->
                    [get_location(s, loc_idx).cards_by_player
                        EXCEPT ![0] = reset_cards(@), ![1] = reset_cards(@)]]),
            loc_idx + 1)

reset_ongoing(s) == reset_ongoing_from(s, 0)

\* the second step left out: the silenced set is kept
clear_silenced_kept(s) == s

\* second step: the silenced set is cleared
clear_silenced(s) == [s EXCEPT !.silenced_cards = <<>>]

IsOngoingSource(card) == card.revealed /\ card_def(card).ability_type = "ONGOING"

\* "for effect in card.card_def.effects" of the silence pass
RECURSIVE silence_effects_loop(_, _, _)
silence_effects_loop(s, card, effects) ==
    IF effects = <<>> THEN s
    ELSE silence_effects_loop(
            IF Head(effects).type = "SilenceOngoingEffect"
            THEN silence_loop(s, get_silenced_cards(Head(effects), s, card, card.owner))
            ELSE s,
            card, Tail(effects))

\* "for location ... for card in location.all_cards()" of the silence pass
RECURSIVE silence_pass(_, _)
silence_pass(s, cards) ==
    IF cards = <<>> THEN s
    ELSE silence_pass(
            IF IsOngoingSource(Head(cards))
            THEN silence_effects_loop(s, Head(cards), card_def(Head(cards)).effects)
            ELSE s,
            Tail(cards))

\* "for target in affected": amount is added to the ongoing modifier
RECURSIVE add_ongoing_power_loop(_, _, _, _, _)
add_ongoing_power_loop(s, evs, targets, amount, card) ==
    IF targets = <<>> THEN [state |-> s, events |-> evs]
    ELSE Let(
      Let(find_card_location(s, Head(targets).instance_id), LAMBDA target_loc_idx :
      Let(find_card_by_instance(s, Head(targets).instance_id), LAMBDA found :
        IF target_loc_idx = NoLocation \/ found = <<>>
        THEN [state |-> s, events |-> evs]
        ELSE
          Let(add_ongoing_power(found[1], amount), LAMBDA updated_target :
            [state |-> with_location(s, target_loc_idx,
                          update_card(get_location(s, target_loc_idx),
                                      updated_target)),
             events |-> Append(evs, PowerChangedEvent(Head(targets).instance_id,
                                                      effective_power(found[1]),
                                                      effective_power(updated_target),
                                                      card.instance_id))]))),
      LAMBDA r : add_ongoing_power_loop(r.state, r.events, Tail(targets), amount, card))

\* the power pass for one effect of an ongoing card
ongoing_effect_apply(effect, s, evs, card) ==
    CASE effect.type \in {"AddOngoingPowerEffect", "ConditionalOngoingPowerEffect"} ->
            add_ongoing_power_loop(
                s, evs, get_affected_cards(effect, s, card, card.owner),
                effect.amount, card)
      [] effect.type = "ScalingOngoingPowerEffect" ->
            Let(get_scaling_amount(effect, s, card, card.owner), LAMBDA amount :
              IF amount = 0 THEN [state |-> s, events |-> evs]
              ELSE add_ongoing_power_loop(
                      s, evs, get_affected_cards(effect, s, card, card.owner),
                      amount, card))
      [] OTHER -> [state |-> s, events |-> evs]

\* "for effect in card.card_def.effects" of the power pass
RECURSIVE ongoing_effects_loop(_, _, _, _)
ongoing_effects_loop(s, evs, card, effects) ==
    IF effects = <<>> THEN [state |-> s, events |-> evs]
    ELSE Let(ongoing_effect_apply(Head(effects), s, evs, card), LAMBDA r :
           ongoing_effects_loop(r.state, r.events, card, Tail(effects)))

\* "for location ... for card in location.all_cards()" of the power pass
RECURSIVE power_pass(_, _, _)
power_pass(s, evs, cards) ==
    IF cards = <<>> THEN [state |-> s, events |-> evs]
    ELSE Let(IF IsOngoingSource(Head(cards)) /\ ~is_silenced(s, Head(cards).instance_id)
             THEN ongoing_effects_loop(s, evs, Head(cards),
                                       card_def(Head(cards)).effects)
             ELSE [state |-> s, events |-> evs],
             LAMBDA r : power_pass(r.state, r.events, Tail(cards)))

compute_ongoing_effects(s) ==
    Let(clear_silenced(reset_ongoing(s)), LAMBDA s1 :
    Let(silence_pass(s1, all_board_cards(s1)), LAMBDA s2 :
      power_pass(s2, <<>>, all_board_cards(s2))))

----------------------------------------------------------------------------
(* engine/models.py: player actions *)

PlayCardAction(player_id, card_instance_id, location) ==
    [type |-> "PlayCardAction", player_id |-> player_id,
     card_instance_id |-> card_instance_id, location |-> location]

PassAction(player_id) == [type |-> "PassAction", player_id |-> player_id]

(* engine/rules.py: validate_action *)

ValidationResult(valid, reason) == [valid |-> valid, reason |-> reason]

\* "for card in player.hand: if card.instance_id == ...": the index of the
\* card in the hand, 0 when there is none
hand_index(player, card_instance_id) ==
    FirstIndex(player.hand, LAMBDA c : c.instance_id = card_instance_id)

\* validate_action without the capacity check
validate_action_no_capacity(s, action) ==
    IF action.type = "PassAction" THEN ValidationResult(TRUE, <<>>)
    ELSE IF action.location \notin {0, 1, 2}
    THEN ValidationResult(FALSE, <<"Invalid location", action.location>>)
    ELSE
      Let(get_player(s, action.player_id), LAMBDA player :
      Let(hand_index(player, action.card_instance_id), LAMBDA i :
        IF i = 0 THEN ValidationResult(FALSE, <<"Card not in hand">>)
        ELSE IF card_def(player.hand[i]).cost > player.energy
        THEN ValidationResult(FALSE, <<"Not enough energy",
                                       card_def(player.hand[i]).cost, player.energy>>)
        ELSE ValidationResult(TRUE, <<>>)))

\* validate_action rejecting a card whose cost equals the energy
validate_action_strict_energy(s, action) ==
    IF action.type = "PassAction" THEN ValidationResult(TRUE, <<>>)
    ELSE IF action.location \notin {0, 1, 2}
    THEN ValidationResult(FALSE, <<"Invalid location", action.location>>)
    ELSE
      Let(get_player(s, action.player_id), LAMBDA player :
      Let(hand_index(player, action.card_instance_id), LAMBDA i :
        IF i = 0 THEN ValidationResult(FALSE, <<"Card not in hand">>)
        ELSE IF card_def(player.hand[i]).cost >= player.energy
        THEN ValidationResult(FALSE, <<"Not enough energy",
                                       card_def(player.hand[i]).cost, player.energy>>)
        ELSE IF card_count(get_location(s, action.location), action.player_id)
                    >= LOCATION_CAPACITY
        THEN ValidationResult(FALSE, <<"Location is at capacity", action.location,
                                       LOCATION_CAPACITY>>)
        ELSE ValidationResult(TRUE, <<>>)))

\* validate_action without the energy check
validate_action_no_energy(s, action) ==
    IF action.type = "PassAction" THEN ValidationResult(TRUE, <<>>)
    ELSE IF action.location \notin {0, 1, 2}
    THEN ValidationResult(FALSE, <<"Invalid location", action.location>>)
    ELSE
      Let(get_player(s, action.player_id), LAMBDA player :
      Let(hand_index(player, action.card_instance_id), LAMBDA i :
        IF i = 0 THEN ValidationResult(FALSE, <<"Card not in hand">>)
        ELSE IF card_count(get_location(s, action.location), action.player_id)
                    >= LOCATION_CAPACITY
        THEN ValidationResult(FALSE, <<"Location is at capacity", action.location,
                                       LOCATION_CAPACITY>>)
        ELSE ValidationResult(TRUE, <<>>)))

\* validate_action that charges every card to the energy of player 0
validate_action_payer_zero(s, action) ==
    IF action.type = "PassAction" THEN ValidationResult(TRUE, <<>>)
    ELSE IF action.location \notin {0, 1, 2}
    THEN ValidationResult(FALSE, <<"Invalid location", action.location>>)
    ELSE
      Let(get_player(s, action.player_id), LAMBDA player :
      Let(hand_index(player, action.card_instance_id), LAMBDA i :
        IF i = 0 THEN ValidationResult(FALSE, <<"Card not in hand">>)
        ELSE IF card_def(player.hand[i]).cost > get_player(s, 0).energy
        THEN ValidationResult(FALSE, <<"Not enough energy",
                                       card_def(player.hand[i]).cost,
                                       get_player(s, 0).energy>>)
        ELSE IF card_count(get_location(s, action.location), action.player_id)
                    >= LOCATION_CAPACITY
        THEN ValidationResult(FALSE, <<"Location is at capacity", action.location,
                                       LOCATION_CAPACITY>>)
        ELSE ValidationResult(TRUE, <<>>)))

validate_action(s, action) ==
    IF action.type = "PassAction" THEN ValidationResult(TRUE, <<>>)
    ELSE IF action.location \notin {0, 1, 2}
    THEN ValidationResult(FALSE, <<"Invalid location", action.location>>)
    ELSE
      Let(get_player(s, action.player_id), LAMBDA player :
      Let(hand_index(player, action.card_instance_id), LAMBDA i :
        IF i = 0 THEN ValidationResult(FALSE, <<"Card not in hand">>)
        ELSE IF card_def(player.hand[i]).cost > player.energy
        THEN ValidationResult(FALSE, <<"Not enough energy",
                                       card_def(player.hand[i]).cost, player.energy>>)
        ELSE IF card_count(get_location(s, action.location), action.player_id)
                    >= LOCATION_CAPACITY
        THEN ValidationResult(FALSE, <<"Location is at capacity", action.location,
                                       LOCATION_CAPACITY>>)
        ELSE ValidationResult(TRUE, <<>>)))

(* engine/rules.py: _reveal_card *)

\* the loop of _reveal_card applying every effect twice
RECURSIVE reveal_effects_loop_twice(_, _, _, _, _)
reveal_effects_loop_twice(s, evs, effects, current_card, player_id) ==
    IF effects = <<>> THEN [state |-> s, events |-> evs]
    ELSE Let(IF IsOnRevealEffect(Head(effects))
             THEN effect_apply(Head(effects), s, current_card, player_id)
             ELSE [state |-> s, events |-> <<>>],
             LAMBDA r1 :
         Let(IF IsOnRevealEffect(Head(effects))
             THEN effect_apply(Head(effects), r1.state, current_card, player_id)
             ELSE [state |-> r1.state, events |-> <<>>],
             LAMBDA r2 :
           reveal_effects_loop_twice(r2.state, evs \o r1.events \o r2.events,
                                     Tail(effects), current_card, player_id)))

\* "for effect in card.card_def.effects" of _reveal_card
RECURSIVE reveal_effects_loop(_, _, _, _, _)
reveal_effects_loop(s, evs, effects, current_card, player_id) ==
    IF effects = <<>> THEN [state |-> s, events |-> evs]
    ELSE Let(IF IsOnRevealEffect(Head(effects))
             THEN effect_apply(Head(effects), s, current_card, player_id)
             ELSE [state |-> s, events |-> <<>>],
             LAMBDA r : reveal_effects_loop(r.state, evs \o r.events, Tail(effects),
                                            current_card, player_id))

reveal_card(s, card, location_idx, player_id) ==
    Let(with_location(s, location_idx,
            update_card(get_location(s, location_idx), with_revealed(card, TRUE))),
        LAMBDA s1 :
    Let(find_card_by_instance(s1, card.instance_id), LAMBDA found :
    Let(card_def(card), LAMBDA def :
      IF def.ability_type = "ON_REVEAL" /\ found # <<>>
      THEN reveal_effects_loop(
              s1, <<CardRevealedEvent(card.instance_id, location_idx, player_id)>>,
              def.effects, found[1], player_id)
      ELSE [state |-> s1,
            events |-> <<CardRevealedEvent(card.instance_id, location_idx,
                                           player_id)>>])))

(* engine/rules.py: resolve_actions *)

\* Phase 1, the PlayCardAction part of one iteration: energy spent, card
\* removed from the hand and placed unrevealed; played collects the tuples
\* (card, location, player) of the cards placed
place_card(r, action, player, card_to_play) ==
    Let(spend_energy(player, card_def(card_to_play).cost), LAMBDA spent :
    Let(with_player(r.state, action.player_id,
                    remove_from_hand(spent, card_to_play.instance_id)),
        LAMBDA s1 :
      [state |-> with_location(s1, action.location,
                    add_card(get_location(s1, action.location), card_to_play,
                             action.player_id)),
       events |-> r.events \o
          <<EnergySpentEvent(action.player_id, card_def(card_to_play).cost,
                             spent.energy),
            CardPlayedEvent(action.player_id, card_to_play.instance_id,
                            action.location)>>,
       played |-> Append(r.played, [card |-> card_to_play,
                                    location |-> action.location,
                                    player_id |-> action.player_id])]))

\* commit_action that takes a rejected card out of the hand all the same
commit_action_discards(r, action) ==
    Let(validate_action(r.state, action), LAMBDA validation :
      IF ~validation.valid
      THEN [r EXCEPT !.events =
               Append(@, ActionInvalidEvent(action.player_id, validation.reason)),
                     !.state = with_player(@, action.player_id,
                         remove_from_hand(get_player(@, action.player_id),
                                          action.card_instance_id))]
      ELSE IF action.type = "PassAction"
      THEN [r EXCEPT !.events = Append(@, PlayerPassedEvent(action.player_id))]
      ELSE
        Let(get_player(r.state, action.player_id), LAMBDA player :
        Let(hand_index(player, action.card_instance_id), LAMBDA i :
          IF i = 0 THEN r
          ELSE place_card(r, action, player, player.hand[i]))))

\* Phase 1, one iteration of "for action in actions"
commit_action(r, action) ==
    Let(validate_action(r.state, action), LAMBDA validation :
      IF ~validation.valid
      THEN [r EXCEPT !.events =
               Append(@, ActionInvalidEvent(action.player_id, validation.reason))]
      ELSE IF action.type = "PassAction"
      THEN [r EXCEPT !.events = Append(@, PlayerPassedEvent(action.player_id))]
      ELSE
        Let(get_player(r.state, action.player_id), LAMBDA player :
        Let(hand_index(player, action.card_instance_id), LAMBDA i :
          IF i = 0 THEN r
          ELSE place_card(r, action, player, player.hand[i]))))

\* the played cards left in the order the actions were passed in
sort_by_player_unsorted(played) == played

\* played_cards.sort(key=player id): a stable sort
sort_by_player(played) ==
    SeqFilter(played, LAMBDA x : x.player_id = 0)
        \o SeqFilter(played, LAMBDA x : x.player_id = 1)

\* Phase 2: "for card, loc_idx, player_id in played_cards"
RECURSIVE reveal_loop(_, _, _)
reveal_loop(s, evs, played) ==
    IF played = <<>> THEN [state |-> s, events |-> evs]
    ELSE Let(reveal_card(s, Head(played).card, Head(played).location,
                         Head(played).player_id),
             LAMBDA r : reveal_loop(r.state, evs \o r.events, Tail(played)))

\* "for action in actions" over [action_p0, action_p1]
RECURSIVE commit_loop(_, _)
commit_loop(r, actions) ==
    IF actions = <<>> THEN r
    ELSE commit_loop(commit_action(r, Head(actions)), Tail(actions))

resolve_actions(s, action_p0, action_p1) ==
    Let(commit_loop([state |-> s, events |-> <<>>, played |-> <<>>],
                    <<action_p0, action_p1>>), LAMBDA c :
    Let(reveal_loop(c.state, c.events, sort_by_player(c.played)), LAMBDA rv :
    Let(compute_ongoing_effects(rv.state), LAMBDA og :
      [state |-> og.state, events |-> rv.events \o og.events])))

(* engine/rules.py: win condition *)

location_winner(location) ==
    Let(total_power(location, 0), LAMBDA p0_power :
    Let(total_power(location, 1), LAMBDA p1_power :
      IF p0_power > p1_power THEN 0
      ELSE IF p1_power > p0_power THEN 1
      ELSE NoPlayer))

\* sum(loc.total_power(player) for loc in state.locations)
total_of(s, player_id) ==
    SumSeq([i \in 1..NUM_LOCATIONS |-> total_power(s.locations[i - 1], player_id)])

\* compute_winner deciding by total power alone
compute_winner_by_total(s) ==
    Let([i \in 1..NUM_LOCATIONS |-> location_winner(s.locations[i - 1])],
        LAMBDA location_winners :
      [result |->
          Let(total_of(s, 0), LAMBDA total_p0 :
          Let(total_of(s, 1), LAMBDA total_p1 :
            IF total_p0 > total_p1 THEN "PLAYER_0_WINS"
            ELSE IF total_p1 > total_p0 THEN "PLAYER_1_WINS"
            ELSE "DRAW")),
       location_winners |-> location_winners])

\* compute_winner calling a draw whenever nobody wins two locations
compute_winner_no_total(s) ==
    Let([i \in 1..NUM_LOCATIONS |-> location_winner(s.locations[i - 1])],
        LAMBDA location_winners :
      LET p0_wins == Cardinality({i \in 1..NUM_LOCATIONS : location_winners[i] = 0})
          p1_wins == Cardinality({i \in 1..NUM_LOCATIONS : location_winners[i] = 1})
      IN  [result |->
              IF p0_wins >= 2 THEN "PLAYER_0_WINS"
              ELSE IF p1_wins >= 2 THEN "PLAYER_1_WINS"
              ELSE "DRAW",
           location_winners |-> location_winners])

compute_winner(s) ==
    Let([i \in 1..NUM_LOCATIONS |-> location_winner(s.locations[i - 1])],
        LAMBDA location_winners :
      LET p0_wins == Cardinality({i \in 1..NUM_LOCATIONS : location_winners[i] = 0})
          p1_wins == Cardinality({i \in 1..NUM_LOCATIONS : location_winners[i] = 1})
      IN  [result |->
              IF p0_wins >= 2 THEN "PLAYER_0_WINS"
              ELSE IF p1_wins >= 2 THEN "PLAYER_1_WINS"
              ELSE Let(total_of(s, 0), LAMBDA total_p0 :
                   Let(total_of(s, 1), LAMBDA total_p1 :
                     IF total_p0 > total_p1 THEN "PLAYER_0_WINS"
                     ELSE IF total_p1 > total_p0 THEN "PLAYER_1_WINS"
                     ELSE "DRAW")),
           location_winners |-> location_winners])

compute_location_powers(s) ==
    [i \in 1..NUM_LOCATIONS |->
        [p \in 1..NUM_PLAYERS |-> total_power(s.locations[i - 1], p - 1)]]

\* is_game_over true only past the last turn
is_game_over_late(s) == s.turn > MAX_TURNS

is_game_over(s) == s.turn >= MAX_TURNS

----------------------------------------------------------------------------
(* engine/controller.py: GameController.  Each call returns the record     *)
(* [state, events, phases]: phases lists the phases the call assigned.     *)

GameState(t, ph, pl, locs, res, next_id) ==
    [turn |-> t, phase |-> ph, players |-> pl, locations |-> locs,
     result |-> res, next_instance_id |-> next_id,
     cards_destroyed_this_game |-> <<>>, cards_moved_this_game |-> <<>>,
     cards_moved_this_turn |-> <<>>, silenced_cards |-> <<>>]

\* create_game.create_deck: one instance per definition, ids from first_id
create_deck(defs, player_id, first_id) ==
    [i \in 1..Len(defs) |-> CardInstance(first_id + i - 1, defs[i], player_id, 0, 0, FALSE)]

\* one draw of a player: the card moves from the deck to the hand and a
\* card-drawn event is emitted, when the deck is not empty
draw_step(r, player_id) ==
    Let(draw_card(get_player(r.state, player_id)), LAMBDA d :
      [state |-> with_player(r.state, player_id, d.player),
       events |-> IF d.drawn = <<>> THEN r.events
                  ELSE Append(r.events,
                              CardDrawnEvent(player_id, d.drawn[1].instance_id))])

\* "for _ in range(STARTING_HAND_SIZE)" for one player
RECURSIVE draw_loop(_, _, _)
draw_loop(r, player_id, n) ==
    IF n = 0 THEN r ELSE draw_loop(draw_step(r, player_id), player_id, n - 1)

create_game(deck_defs_p0, deck_defs_p1) ==
    Let(GameState(0, "TURN_START",
                  [p \in PlayerIds |->
                      PlayerState(p,
                                  IF p = 0 THEN create_deck(deck_defs_p0, 0, 0)
                                  ELSE create_deck(deck_defs_p1, 1, Len(deck_defs_p0)),
                                  <<>>, 0, 0)],
                  create_initial_locations, "IN_PROGRESS",
                  Len(deck_defs_p0) + Len(deck_defs_p1)), LAMBDA s0 :
    Let(draw_loop(draw_loop([state |-> s0, events |-> <<GameStartedEvent>>],
                            0, STARTING_HAND_SIZE),
                  1, STARTING_HAND_SIZE), LAMBDA d :
      [state |-> d.state, events |-> d.events, phases |-> <<"TURN_START">>]))

\* start_turn's body per player that draws on the first turn as well
start_turn_player_draws_always(r, player_id, new_turn) ==
    draw_step([state |-> with_player(r.state, player_id,
                            with_energy(get_player(r.state, player_id),
                                        new_turn, new_turn)),
               events |-> Append(r.events, EnergySetEvent(player_id, new_turn))],
              player_id)

\* start_turn, the body of "for player_id in (0, 1)"
start_turn_player(r, player_id, new_turn) ==
    Let([state |-> with_player(r.state, player_id,
                      with_energy(get_player(r.state, player_id), new_turn, new_turn)),
         events |-> Append(r.events, EnergySetEvent(player_id, new_turn))],
        LAMBDA r1 :
      IF new_turn > 1 THEN draw_step(r1, player_id) ELSE r1)

start_turn(s) ==
    Let(s.turn + 1, LAMBDA new_turn :
    Let(start_turn_player(
            start_turn_player(
                [state |-> clear_turn_tracking(with_turn(s, new_turn)),
                 events |-> <<TurnStartedEvent(new_turn)>>],
                0, new_turn),
            1, new_turn), LAMBDA r :
      [state |-> with_phase(r.state, "PLANNING"), events |-> r.events,
       phases |-> <<"PLANNING">>]))

\* resolve_turn, "if is_game_over(state)": the result is set and the
\* game-ended event appended
end_game(r) ==
    Let(compute_winner(r.state), LAMBDA w :
    Let(compute_location_powers(r.state), LAMBDA location_powers :
      [state |-> with_phase(with_result(r.state, w.result), "GAME_OVER"),
       events |-> Append(r.events,
                     GameEndedEvent(
                         w.result, w.location_winners, location_powers,
                         <<SumSeq([i \in 1..NUM_LOCATIONS |-> location_powers[i][1]]),
                           SumSeq([i \in 1..NUM_LOCATIONS |-> location_powers[i][2]])>>)),
       phases |-> r.phases \o <<"GAME_OVER">>]))

\* resolve_turn that reports the end of the turn before the actions
resolve_turn_ended_first(s, action_p0, action_p1) ==
    Let(resolve_actions(with_phase(s, "RESOLUTION"), action_p0, action_p1),
        LAMBDA ra :
    Let([state |-> with_phase(ra.state, "TURN_END"),
         events |-> <<TurnEndedEvent(ra.state.turn)>> \o ra.events,
         phases |-> <<"RESOLUTION", "TURN_END">>], LAMBDA r :
      IF is_game_over(r.state) THEN end_game(r) ELSE r))

resolve_turn(s, action_p0, action_p1) ==
    Let(resolve_actions(with_phase(s, "RESOLUTION"), action_p0, action_p1),
        LAMBDA ra :
    Let([state |-> with_phase(ra.state, "TURN_END"),
         events |-> Append(ra.events, TurnEndedEvent(ra.state.turn)),
         phases |-> <<"RESOLUTION", "TURN_END">>], LAMBDA r :
      IF is_game_over(r.state) THEN end_game(r) ELSE r))

step(s, action_p0, action_p1) ==
    Let(IF s.phase = "TURN_START" \/ s.phase = "TURN_END"
        THEN start_turn(s)
        ELSE [state |-> s, events |-> <<>>, phases |-> <<>>], LAMBDA st :
    Let(resolve_turn(st.state, action_p0, action_p1), LAMBDA rs :
      [state |-> rs.state, events |-> st.events \o rs.events,
       phases |-> st.phases \o rs.phases]))

\* get_legal_actions that returns every (card in hand, location) unvalidated
get_legal_actions_unchecked(s, player_id) ==
    Let(get_player(s, player_id).hand, LAMBDA hand :
      <<PassAction(player_id)>>
        \o [k \in 1..(Len(hand) * NUM_LOCATIONS) |->
                        PlayCardAction(
                            player_id,
                            hand[((k - 1) \div NUM_LOCATIONS) + 1].instance_id,
                            (k - 1) % NUM_LOCATIONS)])

\* get_legal_actions: pass, then every (card in hand, location) that validates
get_legal_actions(s, player_id) ==
    Let(get_player(s, player_id).hand, LAMBDA hand :
      <<PassAction(player_id)>>
        \o SeqFilter([k \in 1..(Len(hand) * NUM_LOCATIONS) |->
                        PlayCardAction(
                            player_id,
                            hand[((k - 1) \div NUM_LOCATIONS) + 1].instance_id,
                            (k - 1) % NUM_LOCATIONS)],
                     LAMBDA a : validate_action(s, a).valid))

----------------------------------------------------------------------------
\* create_test_state: a snapshot in the planning phase with the given turn,
\* energies and hands, and empty decks
create_test_state(t, p0_energy, p1_energy, p0_hand_defs, p1_hand_defs) ==
    GameState(t, "PLANNING",
              (0 :> PlayerState(0, <<>>, create_deck(p0_hand_defs, 0, 0),
                                p0_energy, p0_energy))
                @@ (1 :> PlayerState(1, <<>>,
                                     create_deck(p1_hand_defs, 1, Len(p0_hand_defs)),
                                     p1_energy, p1_energy)),
              create_initial_locations, "IN_PROGRESS",
              Len(p0_hand_defs) + Len(p1_hand_defs))

\* the tests' make_card: a revealed card with no modifiers
make_card(instance_id, def, owner) ==
    CardInstance(instance_id, def, owner, 0, 0, TRUE)

\* the tests' board set-up "loc = loc.add_card(make_card(...), player)" for
\* the cards of one player at one location, followed by with_location
RECURSIVE with_cards_at(_, _, _, _, _)
with_cards_at(s, loc_idx, player_id, defs, first_id) ==
    IF defs = <<>> THEN s
    ELSE with_cards_at(
           with_location(s, loc_idx,
                         add_card(get_location(s, loc_idx),
                                  make_card(first_id, Head(defs), player_id),
                                  player_id)),
           loc_idx, player_id, Tail(defs), first_id + 1)

(* The state machine: a game created by create_game and driven by calls of *)
(* start_turn, resolve_turn and step.                                      *)

\* the snapshot held in the variables
Snapshot ==
    [turn |-> turn, phase |-> phase, players |-> players, locations |-> locations,
     result |-> result, next_instance_id |-> next_instance_id,
     cards_destroyed_this_game |-> cards_destroyed_this_game,
     cards_moved_this_game |-> cards_moved_this_game,
     cards_moved_this_turn |-> cards_moved_this_turn,
     silenced_cards |-> silenced_cards]

\* the variables hold the snapshot s, the event list evs and the phase log
Holds(s, evs, phases) ==
    /\ turn = s.turn
    /\ phase = s.phase
    /\ players = s.players
    /\ locations = s.locations
    /\ result = s.result
    /\ next_instance_id = s.next_instance_id
    /\ cards_destroyed_this_game = s.cards_destroyed_this_game
    /\ cards_moved_this_game = s.cards_moved_this_game
    /\ cards_moved_this_turn = s.cards_moved_this_turn
    /\ silenced_cards = s.silenced_cards
    /\ events = evs
    /\ phase_log = phases

\* the variables take the snapshot and events a call returned; the phase
\* log is the phase the call found followed by the phases it assigned
Returns(r) ==
    /\ turn' = r.state.turn
    /\ phase' = r.state.phase
    /\ players' = r.state.players
    /\ locations' = r.state.locations
    /\ result' = r.state.result
    /\ next_instance_id' = r.state.next_instance_id
    /\ cards_destroyed_this_game' = r.state.cards_destroyed_this_game
    /\ cards_moved_this_game' = r.state.cards_moved_this_game
    /\ cards_moved_this_turn' = r.state.cards_moved_this_turn
    /\ silenced_cards' = r.state.silenced_cards
    /\ events' = r.events
    /\ phase_log' = <<phase>> \o r.phases

\* deck lists given to create_game (deck_defs_p0, deck_defs_p1): one game
\* in which player 0 can fill a location by plays, a move and summons, one
\* in which both players play, and one in which both cards act on reveal
CapacityDecks == << <<"shade", "hades", "hades", "iris", "hoplite">>, <<>> >>
DuelDecks == << <<"hoplite">>, <<"harpies">> >>
RevealDecks == << <<"harpies">>, <<"harpies">> >>
DeckPairs == {CapacityDecks, DuelDecks}

\* the actions a player may submit: pass, a play of a card of the own hand
\* at a location, and a play of an instance id that no card has
ActionInputs(s, player_id) ==
    LET hand == get_player(s, player_id).hand
    IN  {PassAction(player_id), PlayCardAction(player_id, s.next_instance_id, 0)}
          \cup {PlayCardAction(player_id, hand[i].instance_id, l) :
                  i \in 1..Len(hand), l \in LocationIndexes}

\* a game created from one of the deck pairs
InitWith(pairs) ==
    /\ \E pair \in pairs :
          \E r \in {create_game(pair[1], pair[2])} :
              Holds(r.state, r.events, r.phases)
    /\ turn_count = 0

Init == InitWith(DeckPairs)

\* a call of start_turn, in any phase
StartTurn ==
    /\ turn < TurnCap
    /\ \E s \in {Snapshot} : \E r \in {start_turn(s)} : Returns(r)
    /\ UNCHANGED turn_count

\* a call of resolve_turn, in any phase, with any two actions
ResolveTurn ==
    /\ \E s \in {Snapshot} :
          \E a0 \in ActionInputs(s, 0), a1 \in ActionInputs(s, 1) :
              \E r \in {resolve_turn(s, a0, a1)} : Returns(r)
    /\ UNCHANGED turn_count

Next == StartTurn \/ ResolveTurn

Spec == Init /\ [][Next]_vars

(* The lifecycle with the convenience call step beside the two others.     *)

InitStep == InitWith({DuelDecks})

\* a call of start_turn, in any phase, also after the game is over
StartTurnLate ==
    /\ turn < StepTurnCap
    /\ \E s \in {Snapshot} : \E r \in {start_turn(s)} : Returns(r)
    /\ UNCHANGED turn_count

\* a call of step, in any phase, with any two actions
Step ==
    /\ turn < StepTurnCap
    /\ \E s \in {Snapshot} :
          \E a0 \in ActionInputs(s, 0), a1 \in ActionInputs(s, 1) :
              \E r \in {step(s, a0, a1)} : Returns(r)
    /\ UNCHANGED turn_count

NextStep == StartTurnLate \/ ResolveTurn \/ Step

SpecStep == InitStep /\ [][NextStep]_vars

(* Resolution with the two actions passed in either order.                 *)

InitOrder == InitWith({RevealDecks})

\* a call of resolve_turn with player 1's action passed first
ResolveTurnSwapped ==
    /\ \E s \in {Snapshot} :
          \E a0 \in ActionInputs(s, 0), a1 \in ActionInputs(s, 1) :
              \E r \in {resolve_turn(s, a1, a0)} : Returns(r)
    /\ UNCHANGED turn_count

NextOrder == StartTurn \/ ResolveTurn \/ ResolveTurnSwapped

SpecOrder == InitOrder /\ [][NextOrder]_vars

(* The driver loop of test_full_game_completes: start_turn and resolve_turn *)
(* alternate while the result is IN_PROGRESS and fewer than DriverCap turns *)
(* were counted.                                                           *)

DriverRuns == result = "IN_PROGRESS" /\ turn_count < DriverCap

\* "state, events = controller.start_turn(state)"
DriverStartTurn ==
    /\ DriverRuns
    /\ phase \in {"TURN_START", "TURN_END"}
    /\ \E s \in {Snapshot} : \E r \in {start_turn(s)} : Returns(r)
    /\ UNCHANGED turn_count

\* "state, events = controller.resolve_turn(state, action_p0, action_p1)"
\* followed by "turn_count += 1"
DriverResolveTurn ==
    /\ DriverRuns
    /\ phase = "PLANNING"
    /\ \E s \in {Snapshot} :
          \E a0 \in ActionInputs(s, 0), a1 \in ActionInputs(s, 1) :
              \E r \in {resolve_turn(s, a0, a1)} : Returns(r)
    /\ turn_count' = turn_count + 1

NextDriven == DriverStartTurn \/ DriverResolveTurn

\* a step of the loop that counts a turn: resolve_turn returns for every
\* snapshot and pair of actions, so such a step is possible exactly when the
\* loop condition holds in the planning phase
DriverCountsTurn ==
    /\ DriverRuns
    /\ phase = "PLANNING"
    /\ turn_count' = turn_count + 1

\* the loop runs on while its condition holds: neither call is put off
\* forever
SpecDriven ==
    Init /\ [][NextDriven]_vars
         /\ WF_vars(DriverStartTurn) /\ WF_turn_count(DriverCountsTurn)

(* compute_winner on boards set up as the tests of the win condition do.    *)

\* the cards of one player at one location: none, a hoplite, or a nymph
\* and hades
CellChoices == {<<>>, <<"hoplite">>, <<"naiad_nymph", "hades">>}

\* the boards: one choice per location and player; the instance ids are
\* given by hand as in the tests, two per location and player from 100 on
Boards == [LocationIndexes \X PlayerIds -> CellChoices]

RECURSIVE board_state(_, _, _)
board_state(s, board, cell) ==
    IF cell = NUM_LOCATIONS * NUM_PLAYERS THEN s
    ELSE board_state(
           with_cards_at(s, cell \div NUM_PLAYERS, cell % NUM_PLAYERS,
                         board[<<cell \div NUM_PLAYERS, cell % NUM_PLAYERS>>],
                         100 + 2 * cell),
           board, cell + 1)

\* "state = create_test_state(turn=6, p0_energy=0, p1_energy=0)" and a board
InitWinner ==
    /\ \E board \in Boards :
          \E s \in {board_state(create_test_state(MAX_TURNS, 0, 0, <<>>, <<>>),
                                board, 0)} :
              Holds(s, <<>>, <<"PLANNING">>)
    /\ turn_count = 0

NextWinner == ResolveTurn

SpecWinner == InitWinner /\ [][NextWinner]_vars

(* The tests' set-up for ongoing effects: create_test_state at turn 3 with   *)
(* one card or none in each hand, and cards made by hand at location 0.     *)

OngoingTurn == 3

\* the cards of player 0 at location 0, ids from 100 on
OngoingRowsP0 ==
    {<<>>, <<"ares">>, <<"hoplite", "naiad_nymph">>,
     <<"ares", "hoplite", "hoplite">>, <<"hoplite", "argive_scout", "athena">>,
     <<"ares", "naiad_nymph", "hoplite", "hoplite">>}

\* the cards of player 1 at location 0, ids from 200 on
OngoingRowsP1 ==
    {<<>>, <<"gorgon_glare">>, <<"naiad_nymph", "hoplite">>,
     <<"hoplite", "hoplite", "hoplite", "hoplite">>}

OngoingHandsP0 == {<<"ares">>, <<"hoplite">>, <<"athena">>, <<"hermes">>}

OngoingHandsP1 == {<<>>, <<"gorgon_glare">>}

InitOngoing ==
    /\ \E row0 \in OngoingRowsP0, row1 \in OngoingRowsP1,
          hand0 \in OngoingHandsP0, hand1 \in OngoingHandsP1 :
          \E s \in {with_cards_at(
                       with_cards_at(
                         create_test_state(OngoingTurn, OngoingTurn, OngoingTurn,
                                           hand0, hand1),
                         0, 0, row0, 100),
                       0, 1, row1, 200)} :
              Holds(s, <<>>, <<"PLANNING">>)
    /\ turn_count = 0

NextOngoing == ResolveTurn

SpecOngoing == InitOngoing /\ [][NextOngoing]_vars

(* The tests' set-up for on-reveal effects: create_test_state at turn 3,   *)
(* hoplites of player 0 made by hand on the board, and none or two cards    *)
(* recorded as destroyed.                                                   *)

\* how many hoplites player 0 has at locations 0, 1 and 2; ids from 100,
\* 110 and 120 on
RevealBoards ==
    {<<0, 0, 0>>, <<1, 0, 0>>, <<1, 4, 0>>, <<0, 4, 4>>, <<1, 4, 4>>,
     <<3, 4, 4>>, <<4, 1, 0>>}

RevealHandsP0 ==
    {<<"underworld_gate">>, <<"iris">>, <<"hermes">>, <<"shade">>,
     <<"naiad_nymph">>}

RevealHandsP1 == {<<>>, <<"iris">>}

\* the turn of the snapshot: the tests' turn 3, or the last turn
RevealTurns == {OngoingTurn, MAX_TURNS}

\* "state.with_card_destroyed(InstanceId(998))", then 999, or neither
RevealDestroyed == {<<>>, <<998, 999>>}

RECURSIVE with_hoplites(_, _, _)
with_hoplites(s, board, loc_idx) ==
    IF loc_idx = NUM_LOCATIONS THEN s
    ELSE with_hoplites(
           with_cards_at(s, loc_idx, 0,
                         [i \in 1..board[loc_idx + 1] |-> "hoplite"],
                         100 + 10 * loc_idx),
           board, loc_idx + 1)

RECURSIVE with_cards_destroyed(_, _)
with_cards_destroyed(s, ids) ==
    IF ids = <<>> THEN s
    ELSE with_cards_destroyed(with_card_destroyed(s, Head(ids)), Tail(ids))

InitReveal ==
    /\ \E board \in RevealBoards, destroyed \in RevealDestroyed,
          hand0 \in RevealHandsP0, hand1 \in RevealHandsP1, t \in RevealTurns :
          \E s \in {with_cards_destroyed(
                       with_hoplites(
                         create_test_state(t, OngoingTurn, OngoingTurn,
                                           hand0, hand1),
                         board, 0),
                       destroyed)} :
              Holds(s, <<>>, <<"PLANNING">>)
    /\ turn_count = 0

NextReveal == ResolveTurn

SpecReveal == InitReveal /\ [][NextReveal]_vars

(* The effects applied one at a time, as _reveal_card applies them: a      *)
(* board made by hand as the tests make it, an effect with the fields a    *)
(* card definition may give it, and a source card that is on the board or  *)
(* still in a hand.                                                        *)

\* how many effects are applied to one board
EffectCap == 2

\* the effects applied: the on-reveal effect classes with the target filters
\* and conditions their docstrings and the tests name, and one condition
\* name that _check_condition does not know
EffectInputs ==
    {DestroyAndBuffEffect(d, b, -4) :
        d \in {"SELF", "ONE_SAME_LOCATION_FRIENDLY"},
        b \in {"SAME_LOCATION_ENEMY", "ALL_FRIENDLY"}}
      \cup {StealPowerEffect(t, 3) : t \in {"ONE_SAME_LOCATION_ENEMY", "ALL_ENEMY"}}
      \cup {ConditionalPowerEffect("SELF", 4, c) :
              c \in {"only_card_here", "destroyed_this_game", "moved_this_game",
                     "moved_this_turn", "has_empty_slot", "has_full_moon"}}
      \cup {ReviveEffect(BASE_SPIRIT_POWER),
            MoveCardEffect("SELF", TRUE, NoLocation)}

\* how many hoplites player 0 has at locations 0, 1 and 2
EffectBoards == {<<1, 1, 0>>, <<2, 0, 1>>, <<4, 1, 0>>}

\* the cards an effect may be applied for: every card on the board, and the
\* cards of player 0's hand, which are on no location
EffectSources(s) == all_board_cards(s) \o get_player(s, 0).hand

\* the records of the snapshot: nothing destroyed or moved, two cards
\* destroyed ("state.with_card_destroyed(InstanceId(998))", then 999), or a
\* card moved in an earlier turn ("state.with_card_moved(InstanceId(999))"
\* and the clear_turn_tracking of a later start_turn)
EffectRecords ==
    {[destroyed |-> <<>>, moved |-> FALSE],
     [destroyed |-> <<998, 999>>, moved |-> FALSE],
     [destroyed |-> <<>>, moved |-> TRUE]}

with_records(s, records) ==
    IF records.moved
    THEN clear_turn_tracking(
            with_card_moved(with_cards_destroyed(s, records.destroyed), 999))
    ELSE with_cards_destroyed(s, records.destroyed)

InitEffect ==
    /\ \E board \in EffectBoards, row1 \in OngoingRowsP1,
          records \in EffectRecords :
          \E s \in {with_records(
                       with_cards_at(
                         with_hoplites(
                           create_test_state(OngoingTurn, OngoingTurn, OngoingTurn,
                                             <<"shade">>, <<>>),
                           board, 0),
                         0, 1, row1, 200),
                       records)} :
              Holds(s, <<>>, <<"PLANNING">>)
    /\ turn_count = 0

\* "state, effect_events = effect.apply(state, current_card, player_id)"
ApplyEffect ==
    /\ turn_count < EffectCap
    /\ \E s \in {Snapshot} :
          \E effect \in EffectInputs, i \in 1..Len(EffectSources(s)) :
              \E r \in {effect_apply(effect, s, EffectSources(s)[i],
                                     EffectSources(s)[i].owner)} :
                  Returns([state |-> r.state, events |-> r.events,
                           phases |-> <<>>])
    /\ turn_count' = turn_count + 1

NextEffect == ApplyEffect

SpecEffect == InitEffect /\ [][NextEffect]_vars

(* A resolution in which player 0's card acts on the card player 1 places *)
(* in the same call: create_test_state at turn 3, hoplites of player 0 on  *)
(* the board, one card in each hand.                                       *)

\* player 0's hand: a card that lowers the power of the first enemy card at
\* its location, one that moves it and one that destroys it
DisplaceHandsP0 == {<<"harpies">>, <<"enemy_mover">>, <<"enemy_destroyer">>}

DisplaceHandsP1 == {<<"hoplite">>, <<"iris">>, <<"shade">>}

InitDisplace ==
    /\ \E board \in RevealBoards, hand0 \in DisplaceHandsP0,
          hand1 \in DisplaceHandsP1 :
          \E s \in {with_hoplites(
                       create_test_state(OngoingTurn, OngoingTurn, OngoingTurn,
                                         hand0, hand1),
                       board, 0)} :
              Holds(s, <<>>, <<"PLANNING">>)
    /\ turn_count = 0

NextDisplace == ResolveTurn

SpecDisplace == InitDisplace /\ [][NextDisplace]_vars

(* Properties                                                              *)

\* C1: in every snapshot reachable from create_game by start_turn and
\* resolve_turn calls with arbitrary actions, each location holds at most
\* LOCATION_CAPACITY cards per player.
C1_Capacity ==
    \A l \in LocationIndexes, p \in PlayerIds :
        card_count(locations[l], p) <= LOCATION_CAPACITY

\* C1 witness: a location is full for a player and a play at it was
\* rejected for capacity in the last resolution.
C1_Witness ==
    \E l \in LocationIndexes, p \in PlayerIds :
        /\ card_count(locations[l], p) = LOCATION_CAPACITY
        /\ \E i \in 1..Len(events) :
              /\ events[i].type = "ActionInvalidEvent"
              /\ events[i].player_id = p
              /\ events[i].reason = <<"Location is at capacity", l, LOCATION_CAPACITY>>

\* the play-card actions validate_action is asked about: either player,
\* every instance id handed out so far and one not yet handed out, the three
\* locations and the indices just outside them
CandidatePlays ==
    {PlayCardAction(p, id, l) :
        p \in PlayerIds, id \in 0..next_instance_id, l \in -1..NUM_LOCATIONS}

\* the four conditions of a valid play, read off the variables
InHand(a) ==
    \E i \in 1..Len(players[a.player_id].hand) :
        players[a.player_id].hand[i].instance_id = a.card_instance_id

CanPay(a) ==
    \E i \in 1..Len(players[a.player_id].hand) :
        /\ players[a.player_id].hand[i].instance_id = a.card_instance_id
        /\ players[a.player_id].energy
              >= CARD_REGISTRY[players[a.player_id].hand[i].card_def].cost

HasRoom(a) ==
    Len(locations[a.location].cards_by_player[a.player_id]) < 4

\* C2: validate_action accepts a pass in every state, and accepts a play if
\* and only if the location index is 0, 1 or 2, the card is in the acting
\* player's hand, the player's energy is at least the card's cost and the
\* player has fewer than 4 cards at the location.
C2_ValidIff ==
    /\ \A p \in PlayerIds : validate_action(Snapshot, PassAction(p)).valid
    /\ \A a \in CandidatePlays :
          validate_action(Snapshot, a).valid
            <=> (a.location \in {0, 1, 2} /\ InHand(a) /\ CanPay(a) /\ HasRoom(a))

\* C2 witness: in one state a play is accepted, a play fails on capacity
\* alone and a play fails on energy alone.
C2_Witness ==
    /\ \E a \in CandidatePlays : validate_action(Snapshot, a).valid
    /\ \E a \in CandidatePlays :
          a.location \in {0, 1, 2} /\ InHand(a) /\ CanPay(a) /\ ~HasRoom(a)
    /\ \E a \in CandidatePlays :
          a.location \in {0, 1, 2} /\ InHand(a) /\ ~CanPay(a) /\ HasRoom(a)

\* C3: in every snapshot reachable by start_turn and resolve_turn calls each
\* player's energy is between 0 and max_energy, and no resolution spends
\* more energy than the player has: every energy-spent event of the last
\* call leaves a remainder of at least 0.
C3_EnergyBounds ==
    /\ \A p \in PlayerIds :
          0 <= players[p].energy /\ players[p].energy <= players[p].max_energy
    /\ \A i \in 1..Len(events) :
          events[i].type = "EnergySpentEvent" => events[i].remaining >= 0

\* C3 witness: the last resolution spent a player's whole energy.
C3_Witness ==
    \E i \in 1..Len(events) :
        /\ events[i].type = "EnergySpentEvent"
        /\ events[i].amount > 0
        /\ events[i].remaining = 0
        /\ players[events[i].player_id].energy = 0
        /\ players[events[i].player_id].max_energy > 0

\* event i of the last call is the card-revealed event of a card of player p
\* or an effect event whose source is a card of player p revealed in the call
RevealedBy(i, p) ==
    \/ events[i].type = "CardRevealedEvent" /\ events[i].player_id = p
    \/ /\ "source_card_id" \in DOMAIN events[i]
       /\ \E k \in 1..Len(events) :
             /\ events[k].type = "CardRevealedEvent"
             /\ events[k].player_id = p
             /\ events[k].card_instance_id = events[i].source_card_id

\* C4: when both players play a card in one resolution, the card-revealed
\* event and the on-reveal effect events of player 0's card come before
\* those of player 1's card, in whichever order the actions were passed.
C4_RevealOrder ==
    \A i, j \in 1..Len(events) :
        RevealedBy(i, 0) /\ RevealedBy(j, 1) => i < j

\* C4 witness: player 1's action was passed and committed first, both cards
\* were revealed and both on-reveal effects changed a power.
C4_Witness ==
    /\ \E i, j \in 1..Len(events) :
          /\ i < j
          /\ events[i].type = "CardPlayedEvent" /\ events[i].player_id = 1
          /\ events[j].type = "CardPlayedEvent" /\ events[j].player_id = 0
    /\ \A p \in PlayerIds :
          \E i, j \in 1..Len(events) :
              /\ events[i].type = "CardRevealedEvent" /\ events[i].player_id = p
              /\ events[j].type = "PowerChangedEvent"
              /\ events[j].source_card_id = events[i].card_instance_id

\* the power a player has at a location on the board held in the variables:
\* base power plus both modifiers, summed over the player's cards there
PowerAt(l, p) ==
    LET cs == locations[l].cards_by_player[p]
    IN  SumSeq([i \in 1..Len(cs) |->
                  CARD_REGISTRY[cs[i].card_def].base_power
                    + cs[i].permanent_power_modifier
                    + cs[i].ongoing_power_modifier])

\* the locations at which player p has strictly more power than the other
LocationsWonBy(p) == {l \in LocationIndexes : PowerAt(l, p) > PowerAt(l, 1 - p)}

\* the power of player p summed over the three locations
BoardTotal(p) == PowerAt(0, p) + PowerAt(1, p) + PowerAt(2, p)

WinOf(p) == IF p = 0 THEN "PLAYER_0_WINS" ELSE "PLAYER_1_WINS"

\* the game-ended events of the last call
GameEndedEvents == {i \in 1..Len(events) : events[i].type = "GameEndedEvent"}

\* C6: compute_winner gives the win to a player who has strictly more power
\* than the opponent at 2 or more of the 3 locations, whatever the totals;
\* location_winners[k] is the player with strictly more power at location k,
\* or None when the powers there are equal.
C6_TwoLocationsWin ==
    \A i \in GameEndedEvents :
        /\ \A p \in PlayerIds :
              Cardinality(LocationsWonBy(p)) >= 2
                => events[i].result = WinOf(p) /\ result = WinOf(p)
        /\ \A l \in LocationIndexes :
              events[i].location_winners[l + 1]
                = IF l \in LocationsWonBy(0) THEN 0
                  ELSE IF l \in LocationsWonBy(1) THEN 1
                  ELSE NoPlayer

\* C6 witness: the game ended with a player ahead at two locations and
\* behind in total power.
C6_Witness ==
    /\ GameEndedEvents # {}
    /\ \E p \in PlayerIds :
          /\ Cardinality(LocationsWonBy(p)) >= 2
          /\ BoardTotal(p) < BoardTotal(1 - p)

\* C7: when neither player is ahead at 2 or more locations, the player with
\* the strictly higher total power wins, and the result is a draw exactly
\* when the totals are equal.
C7_TotalDecides ==
    \A i \in GameEndedEvents :
        (\A p \in PlayerIds : Cardinality(LocationsWonBy(p)) < 2)
          => /\ \A p \in PlayerIds :
                   BoardTotal(p) > BoardTotal(1 - p)
                     => events[i].result = WinOf(p) /\ result = WinOf(p)
             /\ (events[i].result = "DRAW") <=> (BoardTotal(0) = BoardTotal(1))
             /\ (result = "DRAW") <=> (BoardTotal(0) = BoardTotal(1))

\* C7 witness: the game ended with each player ahead at one location and
\* the totals different.
C7_Witness ==
    /\ GameEndedEvents # {}
    /\ \A p \in PlayerIds : Cardinality(LocationsWonBy(p)) = 1
    /\ BoardTotal(0) # BoardTotal(1)

\* the last call ran resolve_turn: the phase log passes through resolution
LastCallResolved == \E k \in 2..Len(phase_log) : phase_log[k] = "RESOLUTION"

\* C8: resolve_turn ends in phase GAME_OVER with a terminal result and a
\* game-ended event exactly when the turn counter has reached MAX_TURNS; on
\* an earlier turn it ends in phase TURN_END with result IN_PROGRESS and no
\* game-ended event.
C8_GameOverAtMaxTurn ==
    LastCallResolved =>
        IF turn >= MAX_TURNS
        THEN /\ phase = "GAME_OVER"
             /\ result \in {"PLAYER_0_WINS", "PLAYER_1_WINS", "DRAW"}
             /\ GameEndedEvents # {}
        ELSE /\ phase = "TURN_END"
             /\ result = "IN_PROGRESS"
             /\ GameEndedEvents = {}

\* C8 witness: resolve_turn was called on turn MAX_TURNS and ended the game.
C8_Witness ==
    /\ LastCallResolved
    /\ turn = MAX_TURNS
    /\ phase = "GAME_OVER"
    /\ GameEndedEvents # {}

\* C9: a game driven by alternating start_turn and resolve_turn while the
\* result is IN_PROGRESS reaches a terminal result, and has one exactly
\* when MAX_TURNS resolve_turn calls were made, whatever the actions.
C9_DrivenGameEnds ==
    /\ <>(result # "IN_PROGRESS")
    /\ [](result # "IN_PROGRESS" <=> turn_count = MAX_TURNS)

\* C9 witness: the driven game ended after MAX_TURNS resolve_turn calls, the
\* last of which rejected a play.
C9_Witness ==
    /\ result # "IN_PROGRESS"
    /\ turn_count = MAX_TURNS
    /\ \E i \in 1..Len(events) : events[i].type = "ActionInvalidEvent"

\* the edges of the phase cycle
PhaseEdges ==
    {<<"TURN_START", "PLANNING">>, <<"PLANNING", "RESOLUTION">>,
     <<"RESOLUTION", "TURN_END">>, <<"TURN_END", "TURN_START">>,
     <<"TURN_END", "GAME_OVER">>}

\* C10: across the lifecycle calls the phase changes only along the edges
\* turn-start -> planning -> resolution -> turn-end -> (turn-start |
\* game-over): every phase a call assigns follows the phase before it along
\* one of these edges.
C10_PhaseEdges ==
    \A k \in 1..(Len(phase_log) - 1) :
        <<phase_log[k], phase_log[k + 1]>> \in PhaseEdges

\* C11: the turn counter never decreases and never exceeds MAX_TURNS, in
\* any sequence of start_turn, resolve_turn and step calls.
C11_TurnBounded ==
    [][turn' >= turn /\ turn' <= MAX_TURNS]_vars

\* the instance ids of a tuple of cards
IdsOf(cards) == [i \in 1..Len(cards) |-> cards[i].instance_id]

\* the instance ids held in the two decks, the two hands and the six
\* per-player location lists, container after container
ContainerIds ==
    IdsOf(players[0].deck) \o IdsOf(players[1].deck)
      \o IdsOf(players[0].hand) \o IdsOf(players[1].hand)
      \o IdsOf(locations[0].cards_by_player[0]) \o IdsOf(locations[0].cards_by_player[1])
      \o IdsOf(locations[1].cards_by_player[0]) \o IdsOf(locations[1].cards_by_player[1])
      \o IdsOf(locations[2].cards_by_player[0]) \o IdsOf(locations[2].cards_by_player[1])

NoDuplicates(ids) == \A i, j \in 1..Len(ids) : i < j => ids[i] # ids[j]

\* the cards on the board held in the variables
BoardCards ==
    UNION {{locations[l].cards_by_player[p][i] :
               i \in 1..Len(locations[l].cards_by_player[p])} :
             l \in LocationIndexes, p \in PlayerIds}

\* C12: in every reachable snapshot each card instance id occurs in one
\* container among the decks, hands and location lists, and once there.
C12_OneContainer == NoDuplicates(ContainerIds)

\* C12 witness: cards were drawn, played and moved: a card that moved is on
\* the board, beside cards still in the hand and in the deck.
C12_Witness ==
    /\ \E c \in BoardCards :
          \E i \in 1..Len(cards_moved_this_game) :
              cards_moved_this_game[i] = c.instance_id
    /\ \E p \in PlayerIds : players[p].hand # <<>> /\ players[p].deck # <<>>

\* C13: next_instance_id is greater than the id of every instance ever
\* created, in a container or destroyed, and no id is held twice: a summoned
\* card never takes the id of an existing or a destroyed card.
C13_FreshIds ==
    /\ \A i \in 1..Len(ContainerIds) : ContainerIds[i] < next_instance_id
    /\ \A i \in 1..Len(cards_destroyed_this_game) :
          cards_destroyed_this_game[i] < next_instance_id
    /\ NoDuplicates(ContainerIds \o cards_destroyed_this_game)

\* C13 witness: two spirits were summoned after a card was destroyed.
C13_Witness ==
    /\ cards_destroyed_this_game # <<>>
    /\ \E c, d \in BoardCards :
          /\ c.instance_id # d.instance_id
          /\ c.card_def = "shade" /\ d.card_def = "shade"
          /\ c.revealed /\ d.revealed
          /\ c.permanent_power_modifier > BASE_SPIRIT_POWER
          /\ d.permanent_power_modifier > BASE_SPIRIT_POWER

\* event i of the last call is a power change made by an on-reveal effect:
\* its source is a card with an on-reveal ability, or a card that has left
\* the board
OnRevealChange(i) ==
    /\ events[i].type = "PowerChangedEvent"
    /\ \A c \in BoardCards :
          c.instance_id = events[i].source_card_id
            => CARD_REGISTRY[c.card_def].ability_type = "ON_REVEAL"

\* the sum of the power changes on-reveal effects made to a card in the
\* last call
RECURSIVE OnRevealGain(_, _)
OnRevealGain(id, i) ==
    IF i = 0 THEN 0
    ELSE OnRevealGain(id, i - 1)
           + (IF OnRevealChange(i) /\ events[i].card_instance_id = id
              THEN events[i].new_power - events[i].old_power ELSE 0)

\* the cards played in the last call
PlayedIds ==
    {events[i].card_instance_id :
        i \in {k \in 1..Len(events) : events[k].type = "CardPlayedEvent"}}

\* C14: a permanent power modifier only collects the amounts of on-reveal
\* effects and is never reset: a card played in the last call, which came
\* from the hand with modifier 0, carries the sum of the changes on-reveal
\* effects made to it, also those made before its own reveal.
C14_PermanentKept ==
    \A c \in BoardCards :
        c.instance_id \in PlayedIds
          => c.permanent_power_modifier = OnRevealGain(c.instance_id, Len(events))

\* C15: once an instance id is recorded in cards_destroyed_this_game, no
\* deck, hand or location of a later snapshot holds a card with that id, and
\* find_card_by_instance finds nothing for it.
C15_DestroyedGone ==
    \A i \in 1..Len(cards_destroyed_this_game) :
        /\ \A j \in 1..Len(ContainerIds) :
               ContainerIds[j] # cards_destroyed_this_game[i]
        /\ find_card_by_instance(Snapshot, cards_destroyed_this_game[i]) = <<>>

\* a card was destroyed in an earlier turn, and cards were played after it
C15_Witness ==
    /\ cards_destroyed_this_game # <<>>
    /\ \E i \in 1..Len(events) :
          /\ events[i].type = "CardPlayedEvent"
          /\ \A j \in 1..Len(cards_destroyed_this_game) :
                events[i].card_instance_id > cards_destroyed_this_game[j]
    /\ \A i \in 1..Len(events) : events[i].type # "CardDestroyedEvent"

\* the events of a call in which the player passed, with the pass event of
\* the player replaced by the rejection of its action
RejectedInsteadOfPassed(evs, player_id, reason) ==
    [i \in 1..Len(evs) |->
        IF evs[i] = PlayerPassedEvent(player_id)
        THEN ActionInvalidEvent(player_id, reason) ELSE evs[i]]

InvalidEventsOf(evs, player_id) ==
    {i \in 1..Len(evs) : evs[i].type = "ActionInvalidEvent"
                         /\ evs[i].player_id = player_id}

\* resolve_actions with the action of player_id rejected gives the state of
\* the call in which that player passes, and its events with one rejection
IgnoredLikePass(s, a0, a1, player_id) ==
    Let(resolve_actions(s, a0, a1), LAMBDA r :
    Let(IF player_id = 0 THEN resolve_actions(s, PassAction(0), a1)
                         ELSE resolve_actions(s, a0, PassAction(1)), LAMBDA q :
    Let(validate_action(s, IF player_id = 0 THEN a0 ELSE a1), LAMBDA validation :
        /\ Cardinality(InvalidEventsOf(r.events, player_id)) = 1
        /\ r.state = q.state
        /\ r.events = RejectedInsteadOfPassed(q.events, player_id,
                                              validation.reason))))

\* C16: when an action fails validation in resolve_actions, exactly one
\* action-invalid event is emitted for that player, the player's energy, hand
\* and board cards are as if the player had passed, and the other player's
\* action is resolved as it is beside a pass.
C16_InvalidIgnored ==
    \A a0 \in ActionInputs(Snapshot, 0), a1 \in ActionInputs(Snapshot, 1) :
        /\ ~validate_action(Snapshot, a0).valid
              => IgnoredLikePass(Snapshot, a0, a1, 0)
        /\ ~validate_action(Snapshot, a1).valid
              => IgnoredLikePass(Snapshot, a0, a1, 1)

\* a call rejected the action of one player and played the card of the other
C16_Witness ==
    /\ InvalidEventsOf(events, 0) # {}
    /\ \E i \in 1..Len(events) :
          events[i].type = "CardPlayedEvent" /\ events[i].player_id = 1

\* the rejections of the player in evs are those validate_action gives for
\* the action on the snapshot s
RejectedAsOn(s, evs, action) ==
    Let(validate_action(s, action), LAMBDA validation :
        /\ (InvalidEventsOf(evs, action.player_id) # {}) <=> ~validation.valid
        /\ \A i \in InvalidEventsOf(evs, action.player_id) :
               evs[i].reason = validation.reason)

\* C17: in resolve_actions the action of player 0 and the action of player 1
\* are each accepted or rejected as validate_action decides on the snapshot
\* before either action was committed; committing the first action does not
\* change the verdict on the second.
C17_ValidatedOnSnapshot ==
    \A a0 \in ActionInputs(Snapshot, 0), a1 \in ActionInputs(Snapshot, 1) :
        Let(resolve_actions(Snapshot, a0, a1).events, LAMBDA evs :
            /\ RejectedAsOn(Snapshot, evs, a0)
            /\ RejectedAsOn(Snapshot, evs, a1))

\* a call committed the card of player 0 and then accepted the card of
\* player 1 at the same location
C17_Witness ==
    \E i, j \in 1..Len(events) :
        /\ i < j
        /\ events[i].type = "CardPlayedEvent" /\ events[i].player_id = 0
        /\ events[j].type = "CardPlayedEvent" /\ events[j].player_id = 1
        /\ events[i].location = events[j].location

\* the last call was start_turn: its events are all the snapshot holds
LastCallStartedTurn ==
    events # <<>> /\ events[1].type = "TurnStartedEvent"

\* C18: after start_turn produces turn N, both players' energy and max_energy
\* equal N, whatever energy was left from the turn before.
C18_EnergyIsTurn ==
    LastCallStartedTurn =>
        \A p \in PlayerIds :
            players[p].energy = turn /\ players[p].max_energy = turn

\* start_turn was called on a snapshot still in planning, whose players had
\* all the energy of the turn before left
C18_Witness ==
    /\ LastCallStartedTurn
    /\ turn >= 2
    /\ phase_log = <<"PLANNING", "PLANNING">>

\* C19: ongoing recomputation is idempotent: compute_ongoing_effects applied
\* twice in a row to a snapshot gives every board card the same ongoing
\* modifier and effective power and the same silenced set as applied once,
\* and applied again to the snapshot a resolution returned it changes none
\* of them.
C19_OngoingIdempotent ==
    Let(compute_ongoing_effects(Snapshot).state, LAMBDA once :
    Let(compute_ongoing_effects(once).state, LAMBDA twice :
        /\ twice.locations = once.locations
        /\ twice.silenced_cards = once.silenced_cards
        /\ phase = "TURN_END" =>
              /\ once.locations = locations
              /\ once.silenced_cards = silenced_cards))

\* a resolution left a silenced card and a card with an ongoing bonus
C19_Witness ==
    /\ phase = "TURN_END"
    /\ silenced_cards # <<>>
    /\ \E c \in BoardCards : c.ongoing_power_modifier > 0

\* the revealed board cards with a conditional ongoing effect that requires
\* a full location, each with that effect
FullLocationSources ==
    UNION {{<<c, card_def(c).effects[i]>> :
              i \in {k \in 1..Len(card_def(c).effects) :
                       /\ card_def(c).effects[k].type = "ConditionalOngoingPowerEffect"
                       /\ card_def(c).effects[k].condition = "location_full"}} :
           c \in {b \in BoardCards :
                    b.revealed /\ card_def(b).ability_type = "ONGOING"}}

\* what the power changes of the last call with this source added to the
\* card, among events[1..i]
RECURSIVE ContributionOf(_, _, _)
ContributionOf(source_id, card_id, i) ==
    IF i = 0 THEN 0
    ELSE ContributionOf(source_id, card_id, i - 1)
         + (IF /\ events[i].type = "PowerChangedEvent"
               /\ events[i].source_card_id = source_id
               /\ events[i].card_instance_id = card_id
            THEN events[i].new_power - events[i].old_power ELSE 0)

OwnerCountAt(c) ==
    card_count(get_location(Snapshot, find_card_location(Snapshot, c.instance_id)),
               c.owner)

IsResolvedTarget(c, effect, t) ==
    \E i \in 1..Len(resolve_targets(Snapshot, c, c.owner, effect.target)) :
        resolve_targets(Snapshot, c, c.owner, effect.target)[i].instance_id
            = t.instance_id

\* C20: after a resolution, a revealed card with a conditional ongoing
\* effect whose condition is "location_full" has contributed nothing to any
\* card while its owner has fewer than 4 cards at its location, and exactly
\* the effect's amount to each resolved target once its owner has 4 there.
C20_FullLocationBonus ==
    phase = "TURN_END" =>
        \A x \in FullLocationSources : \A t \in BoardCards :
            ContributionOf(x[1].instance_id, t.instance_id, Len(events))
              = IF OwnerCountAt(x[1]) >= LOCATION_CAPACITY
                   /\ IsResolvedTarget(x[1], x[2], t)
                THEN x[2].amount ELSE 0

\* C20 amended: the same, for a source card that is not silenced; a
\* silenced source contributes nothing, full location or not.
C20_FullLocationBonusUnsilenced ==
    phase = "TURN_END" =>
        \A x \in FullLocationSources : \A t \in BoardCards :
            ContributionOf(x[1].instance_id, t.instance_id, Len(events))
              = IF /\ ~is_silenced(Snapshot, x[1].instance_id)
                   /\ OwnerCountAt(x[1]) >= LOCATION_CAPACITY
                   /\ IsResolvedTarget(x[1], x[2], t)
                THEN x[2].amount ELSE 0

\* a resolution with an unsilenced source at a full location that raised a
\* target
C20_Witness ==
    /\ phase = "TURN_END"
    /\ \E x \in FullLocationSources :
          /\ ~is_silenced(Snapshot, x[1].instance_id)
          /\ OwnerCountAt(x[1]) = LOCATION_CAPACITY
          /\ \E t \in BoardCards :
                ContributionOf(x[1].instance_id, t.instance_id, Len(events)) > 0

\* the cards revealed by the last call
RevealedNow ==
    {c \in BoardCards :
        \E i \in 1..Len(events) :
            events[i].type = "CardRevealedEvent"
            /\ events[i].card_instance_id = c.instance_id}

\* the power-changed events of the last call with this source
ChangesBy(source_id) ==
    {i \in 1..Len(events) : events[i].type = "PowerChangedEvent"
                            /\ events[i].source_card_id = source_id}

\* the scaling on-reveal effects of a card's definition
ScalingEffectsOf(c) ==
    {card_def(c).effects[k] :
        k \in {j \in 1..Len(card_def(c).effects) :
                 card_def(c).effects[j].type = "ScalingPowerEffect"}}

\* C21: revealing a card with the on-reveal scaling effect adds
\* per_destroyed_amount times the number of cards destroyed so far this game
\* to the permanent modifier of each resolved target (the card itself), with
\* one power-changed event; when the bonus is zero the card is left as it
\* was and no power-changed event is emitted.
C21_ScalingBonus ==
    \A c \in RevealedNow : \A e \in ScalingEffectsOf(c) :
        Let(Len(cards_destroyed_this_game) * e.per_destroyed_amount, LAMBDA bonus :
            /\ c.permanent_power_modifier = bonus
            /\ effective_power(c) = card_def(c).base_power + bonus
            /\ ContributionOf(c.instance_id, c.instance_id, Len(events)) = bonus
            /\ Cardinality(ChangesBy(c.instance_id)) = IF bonus = 0 THEN 0 ELSE 1)

\* a card with the scaling effect, revealed with two cards destroyed, has its
\* base power + 4
C21_Witness ==
    \E c \in RevealedNow :
        /\ ScalingEffectsOf(c) # {}
        /\ Len(cards_destroyed_this_game) = 2
        /\ effective_power(c) = card_def(c).base_power + 4

\* the "move to another location" effects of a card's definition
MoveAwayEffectsOf(c) ==
    {card_def(c).effects[k] :
        k \in {j \in 1..Len(card_def(c).effects) :
                 /\ card_def(c).effects[j].type = "MoveCardEffect"
                 /\ card_def(c).effects[j].to_other_location}}

\* the card-moved events of the last call with this source
MovesBy(source_id) ==
    {i \in 1..Len(events) : events[i].type = "CardMovedEvent"
                            /\ events[i].source_card_id = source_id}

HasRoomFor(l, owner) ==
    card_count(get_location(Snapshot, l), owner) < LOCATION_CAPACITY

\* the move a card-moved event reports went to the first location, scanning
\* 0 to 2 without the one the card left, with room for the card's owner; the
\* card lies there and both tracking records hold its id
MovedToFirstFree(ev) ==
    \E t \in BoardCards :
        /\ t.instance_id = ev.card_instance_id
        /\ ev.to_location # ev.from_location
        /\ find_card_location(Snapshot, t.instance_id) = ev.to_location
        /\ \A l \in 0..(ev.to_location - 1) :
               l # ev.from_location => ~HasRoomFor(l, t.owner)
        /\ InSeq(t.instance_id, cards_moved_this_turn)
        /\ InSeq(t.instance_id, cards_moved_this_game)

\* no move was made for the card c revealed with the effect: it has no
\* target, or no other location has room for the target's owner; the target
\* is in neither tracking record
NothingToMove(c, effect) ==
    Let(resolve_targets(Snapshot, c, c.owner, effect.target), LAMBDA targets :
        \A i \in 1..Len(targets) :
            /\ \A l \in LocationIndexes :
                   l # find_card_location(Snapshot, c.instance_id)
                      => ~HasRoomFor(l, targets[i].owner)
            /\ ~InSeq(targets[i].instance_id, cards_moved_this_turn)
            /\ ~InSeq(targets[i].instance_id, cards_moved_this_game))

LegalNow(p) == get_legal_actions(Snapshot, p)

\* C22: get_legal_actions returns exactly the actions that validate: the
\* pass action is among them, every play-card action returned is accepted by
\* validate_action in that state, and every (card in the player's hand,
\* location 0..2) pair that validate_action accepts is returned.
C22_LegalActionsExact ==
    \A p \in PlayerIds :
        /\ InSeq(PassAction(p), LegalNow(p))
        /\ \A i \in 1..Len(LegalNow(p)) :
               /\ LegalNow(p)[i].player_id = p
               /\ validate_action(Snapshot, LegalNow(p)[i]).valid
        /\ \A k \in 1..Len(players[p].hand), l \in LocationIndexes :
               validate_action(Snapshot,
                               PlayCardAction(p, players[p].hand[k].instance_id, l)).valid
                 => InSeq(PlayCardAction(p, players[p].hand[k].instance_id, l),
                          LegalNow(p))

\* a player with a card it can play somewhere and a card it cannot play
C22_Witness ==
    \E p \in PlayerIds :
        /\ Len(LegalNow(p)) > 1
        /\ Len(LegalNow(p)) < 1 + Len(players[p].hand) * NUM_LOCATIONS

\* the step is a call of start_turn: the new events are those of a turn start
StartTurnStep ==
    /\ events' # <<>> /\ events'[1].type = "TurnStartedEvent"
    /\ turn' = turn + 1

\* the ids of the card-drawn events of the new event list for the player
DrawnIn(evs, p) ==
    SelectSeq([i \in 1..Len(evs) |->
                  IF evs[i].type = "CardDrawnEvent" /\ evs[i].player_id = p
                  THEN evs[i].card_instance_id ELSE NoPlayer],
              LAMBDA id : id # NoPlayer)

\* C23: start_turn moves exactly one card, the head of the deck, to the end
\* of each player's hand on every turn after the first and draws nothing on
\* turn 1; when a player's deck is empty the hand is unchanged and no
\* card-drawn event is emitted for that player.
C23_DrawsHeadOfDeck ==
    [][StartTurnStep =>
         \A p \in PlayerIds :
            IF turn' > 1 /\ players[p].deck # <<>>
            THEN /\ players'[p].hand = Append(players[p].hand, Head(players[p].deck))
                 /\ players'[p].deck = Tail(players[p].deck)
                 /\ DrawnIn(events', p) = <<Head(players[p].deck).instance_id>>
            ELSE /\ players'[p].hand = players[p].hand
                 /\ players'[p].deck = players[p].deck
                 /\ DrawnIn(events', p) = <<>>]_vars

\* a turn after the first was started: player 0 drew a card and player 1,
\* whose deck was empty, drew none
C23_Witness ==
    /\ LastCallStartedTurn
    /\ turn > 1
    /\ DrawnIn(events, 0) # <<>>
    /\ DrawnIn(events, 1) = <<>>

\* C24: start_turn empties cards_moved_this_turn and leaves
\* cards_moved_this_game, cards_destroyed_this_game, the three locations
\* (cards, modifiers, revealed flags), next_instance_id and the result
\* unchanged.
C24_StartTurnFrame ==
    [][StartTurnStep =>
         /\ cards_moved_this_turn' = <<>>
         /\ UNCHANGED <<cards_moved_this_game, cards_destroyed_this_game,
                        locations, next_instance_id, result>>]_vars

\* a turn was started after a turn in which a card moved and a card was
\* destroyed earlier in the game
C24_Witness ==
    /\ LastCallStartedTurn
    /\ cards_moved_this_turn = <<>>
    /\ cards_moved_this_game # <<>>
    /\ cards_destroyed_this_game # <<>>
    /\ BoardCards # {}

SourcedTypes == {"PowerChangedEvent", "CardDestroyedEvent", "CardMovedEvent"}

\* the positions in evs of the events an effect of the card emitted
SourcedAt(evs, id) ==
    {i \in 1..Len(evs) : evs[i].type \in SourcedTypes
                         /\ evs[i].source_card_id = id}

RevealsAt(evs) == {i \in 1..Len(evs) : evs[i].type = "CardRevealedEvent"}

\* the type of the events an on-reveal effect emits
EventTypeOf(effect) ==
    CASE effect.type \in {"AddPowerEffect", "StealPowerEffect",
                          "ScalingPowerEffect", "ConditionalPowerEffect"}
            -> "PowerChangedEvent"
      [] effect.type = "MoveCardEffect" -> "CardMovedEvent"
      [] effect.type = "DestroyCardEffect" -> "CardDestroyedEvent"
      [] OTHER -> "none"

\* the events one application of an effect with a single target emits at
\* most: a steal reports its target and its source
MaxEventsOf(effect) == IF effect.type = "StealPowerEffect" THEN 2 ELSE 1

\* the declared effect an event of the card belongs to, 0 for none
RankOf(def, ev) ==
    FirstIndex(def.effects, LAMBDA e : EventTypeOf(e) = ev.type)

\* the events of a card of ability kind on-reveal revealed at position j of
\* evs: all between its reveal and the next one, grouped in the order the
\* effects are declared, no effect more than once, a self-destruction once
OnRevealOnce(evs, j, def) ==
    Let(SourcedAt(evs, evs[j].card_instance_id), LAMBDA at :
        /\ \A i \in at :
               /\ i > j
               /\ \A r \in RevealsAt(evs) : ~(j < r /\ r < i)
               /\ RankOf(def, evs[i]) # 0
        /\ \A i1, i2 \in at :
               i1 < i2 => RankOf(def, evs[i1]) <= RankOf(def, evs[i2])
        /\ \A k \in 1..Len(def.effects) :
               /\ Cardinality({i \in at : RankOf(def, evs[i]) = k})
                      <= MaxEventsOf(def.effects[k])
               /\ (def.effects[k].type = "DestroyCardEffect"
                      /\ def.effects[k].target = "SELF")
                    => Cardinality({i \in at : RankOf(def, evs[i]) = k}) = 1)

\* the events of a card of another ability kind revealed at position j: none
\* before the last reveal of the call is over, and then only the power
\* changes of ongoing recomputation, one per card
NoRevealEffect(evs, j) ==
    Let(SourcedAt(evs, evs[j].card_instance_id), LAMBDA at :
        /\ \A i \in at :
               /\ evs[i].type = "PowerChangedEvent"
               /\ \A r \in RevealsAt(evs) : r < i
        /\ \A i1, i2 \in at :
               i1 # i2 => evs[i1].card_instance_id # evs[i2].card_instance_id)

\* the definition of the card a player held in hand before the call
HeldDef(p, id) == card_def(players[p].hand[hand_index(players[p], id)])

\* C25: a card's on-reveal effects are applied exactly once, in the call in
\* which the card is played and revealed, in the order they are declared on
\* its definition; a call that reveals no card emits no event of an on-reveal
\* effect, and a card whose ability kind is not on-reveal applies no effect
\* when revealed.
C25_OnRevealOnce ==
    [][/\ \A j \in RevealsAt(events') :
             IF HeldDef(events'[j].player_id, events'[j].card_instance_id).ability_type
                    = "ON_REVEAL"
             THEN OnRevealOnce(events', j,
                       HeldDef(events'[j].player_id, events'[j].card_instance_id))
             ELSE NoRevealEffect(events', j)
       /\ \A i \in 1..Len(events') :
             events'[i].type \in SourcedTypes =>
                \/ \E j \in RevealsAt(events') :
                      j < i /\ events'[j].card_instance_id = events'[i].source_card_id
                \/ \E c \in BoardCards :
                      /\ c.instance_id = events'[i].source_card_id
                      /\ c.revealed
                      /\ card_def(c).ability_type = "ONGOING"
      ]_vars

\* a call revealed a card that stole power and then destroyed itself, in
\* that order
C25_Witness ==
    \E j \in RevealsAt(events) :
        \E i1, i2 \in SourcedAt(events, events[j].card_instance_id) :
            /\ j < i1 /\ i1 < i2
            /\ events[i1].type = "PowerChangedEvent"
            /\ events[i2].type = "CardDestroyedEvent"

\* the revealed board cards of ability kind ongoing that are silenced
SilencedSources ==
    {c \in BoardCards : /\ c.revealed
                        /\ card_def(c).ability_type = "ONGOING"
                        /\ InSeq(c.instance_id, silenced_cards)}

\* C26: in ongoing recomputation a revealed ongoing card whose id is in the
\* silenced set has its ongoing effects skipped: the resolution has no power
\* change with it as source, and recomputation, silencing included, leaves
\* every card's permanent modifier as it was.
C26_SilencedSkipped ==
    /\ phase = "TURN_END" =>
          \A c \in SilencedSources : ChangesBy(c.instance_id) = {}
    /\ Let(compute_ongoing_effects(Snapshot).state, LAMBDA after :
          \A c \in BoardCards :
              find_card_by_instance(after, c.instance_id)[1].permanent_power_modifier
                  = c.permanent_power_modifier)

\* a resolution left a silenced card whose ongoing effect has a target
C26_Witness ==
    /\ phase = "TURN_END"
    /\ \E c \in SilencedSources :
          \E k \in 1..Len(card_def(c).effects) :
              /\ card_def(c).effects[k].type = "AddOngoingPowerEffect"
              /\ resolve_targets(Snapshot, c, c.owner,
                                 card_def(c).effects[k].target) # <<>>

EventsOfType(types) == {i \in 1..Len(events) : events[i].type \in types}

CommitEvents ==
    EventsOfType({"ActionInvalidEvent", "PlayerPassedEvent", "EnergySpentEvent",
                  "CardPlayedEvent"})

\* the power changes of ongoing recomputation: those whose source is a
\* revealed board card of ability kind ongoing
OngoingChanges ==
    {i \in EventsOfType({"PowerChangedEvent"}) :
        \E c \in BoardCards : /\ c.instance_id = events[i].source_card_id
                              /\ c.revealed
                              /\ card_def(c).ability_type = "ONGOING"}

\* the reveals and the events of on-reveal effects
RevealPhaseEvents ==
    EventsOfType(SourcedTypes \cup {"CardRevealedEvent"}) \ OngoingChanges

\* C27: in the event list returned by resolve_turn every commit event
\* (action-invalid, player-passed, energy-spent, card-played) precedes every
\* card-revealed event, every card-revealed event and on-reveal effect event
\* precedes the power changes of ongoing recomputation, the turn-ended event
\* follows all of them, and the game-ended event, when present, is last.
C27_EventPhases ==
    LastCallResolved =>
        /\ \A i \in CommitEvents, j \in EventsOfType({"CardRevealedEvent"}) : i < j
        /\ \A i \in CommitEvents \cup RevealPhaseEvents, j \in OngoingChanges : i < j
        /\ Cardinality(EventsOfType({"TurnEndedEvent"})) = 1
        /\ \A i \in CommitEvents \cup RevealPhaseEvents \cup OngoingChanges,
              j \in EventsOfType({"TurnEndedEvent"}) : i < j
        /\ \A j \in EventsOfType({"GameEndedEvent"}) :
              /\ j = Len(events)
              /\ \A i \in EventsOfType({"TurnEndedEvent"}) : i < j

\* a call on the last turn with a commit, a reveal, a move made by an
\* on-reveal effect, a power change of ongoing recomputation, the end of the
\* turn and the end of the game
C27_Witness ==
    /\ LastCallResolved
    /\ CommitEvents # {}
    /\ EventsOfType({"CardMovedEvent"}) # {}
    /\ OngoingChanges # {}
    /\ EventsOfType({"GameEndedEvent"}) # {}

\* what one ongoing power effect of the source c gives to each of its targets
OngoingAmountOf(c, effect) ==
    CASE effect.type = "AddOngoingPowerEffect" -> effect.amount
      [] effect.type = "ConditionalOngoingPowerEffect" ->
            IF effect.condition = "location_full" /\ OwnerCountAt(c) < LOCATION_CAPACITY
            THEN 0 ELSE effect.amount
      [] effect.type = "ScalingOngoingPowerEffect" ->
            Len(resolve_targets(Snapshot, c, c.owner, effect.count_filter))
                * effect.per_card_amount
      [] OTHER -> 0

\* what the effects k..Len of the source c give to the card t
RECURSIVE OngoingFromEffects(_, _, _)
OngoingFromEffects(c, t, k) ==
    IF k > Len(card_def(c).effects) THEN 0
    ELSE (IF IsResolvedTarget(c, card_def(c).effects[k], t)
          THEN OngoingAmountOf(c, card_def(c).effects[k]) ELSE 0)
         + OngoingFromEffects(c, t, k + 1)

\* the sources of ongoing recomputation: revealed, of ability kind ongoing,
\* not silenced
ActiveSources ==
    {c \in BoardCards : /\ c.revealed
                        /\ card_def(c).ability_type = "ONGOING"
                        /\ ~InSeq(c.instance_id, silenced_cards)}

RECURSIVE OngoingFromSources(_, _)
OngoingFromSources(sources, t) ==
    IF sources = {} THEN 0
    ELSE LET c == CHOOSE x \in sources : TRUE
         IN  OngoingFromEffects(c, t, 1) + OngoingFromSources(sources \ {c}, t)

\* C28: after compute_ongoing_effects each board card's ongoing modifier is
\* the sum, over the revealed, non-silenced cards of ability kind ongoing and
\* over their ongoing power effects (fixed, conditional and scaling), of the
\* effect's amount for each effect that resolves the card as a target; a card
\* no effect reaches has 0.
C28_OngoingIsSum ==
    phase \in {"TURN_END", "GAME_OVER"} =>
        \A t \in BoardCards :
            t.ongoing_power_modifier = OngoingFromSources(ActiveSources, t)

\* a resolution left a card raised by two different sources, one of them
\* by more than 1
C28_Witness ==
    /\ phase = "TURN_END"
    /\ \E t \in BoardCards : \E c1, c2 \in ActiveSources :
          /\ c1 # c2
          /\ ContributionOf(c1.instance_id, t.instance_id, Len(events)) > 1
          /\ ContributionOf(c2.instance_id, t.instance_id, Len(events)) > 0
          /\ t.ongoing_power_modifier > 2

\* the ids the silence effects of the revealed board cards of ability kind
\* ongoing resolve as targets on the current board
SilenceTargets ==
    {t.instance_id : t \in
        {t \in BoardCards :
            \E c \in BoardCards :
                /\ c.revealed
                /\ card_def(c).ability_type = "ONGOING"
                /\ \E k \in 1..Len(card_def(c).effects) :
                      /\ card_def(c).effects[k].type = "SilenceOngoingEffect"
                      /\ IsResolvedTarget(c, card_def(c).effects[k], t)}}

SeqToSet(q) == {q[i] : i \in 1..Len(q)}

\* C29: after each resolution the silenced set is recomputed from scratch:
\* it is exactly the set of ids the silence effects of the revealed cards of
\* ability kind ongoing resolve as targets on the current board; an id
\* silenced before, by an earlier resolution or by a silence effect applied
\* on reveal, is not kept by recomputation unless it is targeted again.
C29_SilencedRecomputed ==
    /\ phase \in {"TURN_END", "GAME_OVER"} =>
          /\ SeqToSet(silenced_cards) = SilenceTargets
          /\ NoDuplicates(silenced_cards)
    /\ \A t \in BoardCards :
          SeqToSet(compute_ongoing_effects(silence_loop(Snapshot, <<t>>))
                      .state.silenced_cards) = SilenceTargets

\* a resolution left a card silenced, and a card that was moved away from
\* the location of a silencing enemy card and is not silenced
C29_Witness ==
    /\ phase = "TURN_END"
    /\ silenced_cards # <<>>
    /\ \E t \in BoardCards :
          /\ InSeq(t.instance_id, cards_moved_this_game)
          /\ ~InSeq(t.instance_id, silenced_cards)
          /\ t.instance_id >= 100

----------------------------------------------------------------------------
(* The effects applied one at a time (SpecEffect).                         *)

\* the effects of one class among those applied
InputsOfType(type) == {e \in EffectInputs : e.type = type}

\* the cards of one player at one location with the cards with an id in
\* gone taken away and amount added to the permanent modifier of the cards with an id in buffed
RowAfter(row, gone, buffed, amount) ==
    SeqMap(SeqFilter(row, LAMBDA c : c.instance_id \notin gone),
           LAMBDA c : IF c.instance_id \in buffed
                      THEN [c EXCEPT !.permanent_power_modifier = @ + amount]
                      ELSE c)

\* the locations of s with that change made in every row
BoardAfter(s, gone, buffed, amount) ==
    [l \in LocationIndexes |->
        [s.locations[l] EXCEPT !.cards_by_player =
            [p \in PlayerIds |-> RowAfter(@[p], gone, buffed, amount)]]]

\* what DestroyAndBuffEffect.apply returns for a source on the board of s
DestroysFirstBuffsFirst(s, effect, src) ==
    Let(effect_apply(effect, s, src, src.owner), LAMBDA r :
    Let(resolve_targets(s, src, src.owner, effect.destroy_target), LAMBDA dt :
      IF dt = <<>> THEN r.state = s /\ r.events = <<>>
      ELSE
        Let(resolve_targets(r.state, src, src.owner, effect.buff_target),
            LAMBDA bt :
          /\ r.state =
                [s EXCEPT
                   !.cards_destroyed_this_game = Append(@, dt[1].instance_id),
                   !.locations =
                      BoardAfter(s, {dt[1].instance_id},
                                 IF bt = <<>> THEN {} ELSE {bt[1].instance_id},
                                 effect.buff_amount)]
          /\ r.events # <<>>
          /\ r.events[1] = CardDestroyedEvent(dt[1].instance_id,
                                              find_card_location(s, dt[1].instance_id),
                                              src.instance_id)
          /\ Len(r.events) = IF bt = <<>> THEN 1 ELSE 2
          /\ bt # <<>> =>
                /\ r.events[2].type = "PowerChangedEvent"
                /\ r.events[2].card_instance_id = bt[1].instance_id
                /\ r.events[2].new_power = r.events[2].old_power + effect.buff_amount)))

\* C31: destroy-and-buff applied for a card on the board removes the first
\* resolved destroy target from the board and records it as destroyed, then
\* adds the buff amount to the permanent modifier of the first buff target
\* resolved on the board that is left, and of no other card; when no
\* destroy target resolves the snapshot is returned as it was, with no
\* event.
C31_DestroyAndBuff ==
    \A effect \in InputsOfType("DestroyAndBuffEffect") :
        \A i \in 1..Len(all_board_cards(Snapshot)) :
            DestroysFirstBuffsFirst(Snapshot, effect, all_board_cards(Snapshot)[i])

\* C31 witness: the last effect applied destroyed a card, which is on the
\* record and off the board, and buffed one card by -4 at a location where
\* its owner has a second card, which kept its modifier of 0.
C31_Witness ==
    /\ Len(events) = 2
    /\ events[1].type = "CardDestroyedEvent"
    /\ events[2].type = "PowerChangedEvent"
    /\ events[2].new_power = events[2].old_power - 4
    /\ InSeq(events[1].card_instance_id, cards_destroyed_this_game)
    /\ \A c \in BoardCards : c.instance_id # events[1].card_instance_id
    /\ \E l \in LocationIndexes, p \in PlayerIds :
          \E j, k \in 1..Len(locations[l].cards_by_player[p]) :
              /\ j # k
              /\ locations[l].cards_by_player[p][j].instance_id
                    = events[2].card_instance_id
              /\ locations[l].cards_by_player[p][j].permanent_power_modifier = -4
              /\ locations[l].cards_by_player[p][k].permanent_power_modifier = 0
              /\ locations[l].cards_by_player[p][k].instance_id
                    # events[1].source_card_id

\* the snapshot s with amount added to the permanent modifier of one card
WithPermanent(s, id, amount) ==
    [s EXCEPT !.locations = BoardAfter(s, {}, {id}, amount)]

\* the card is on the board of s
OnBoard(s, card) == InSeq(card.instance_id, IdsOf(all_board_cards(s)))

\* the sum of the effective powers of the board cards of s with these ids
PowerOf(s, ids) ==
    SumSeq(SeqMap(SeqFilter(all_board_cards(s), LAMBDA c : c.instance_id \in ids),
                  effective_power))

\* what StealPowerEffect.apply returns for a source on or off the board
StealsFromFirst(s, effect, src) ==
    Let(effect_apply(effect, s, src, src.owner), LAMBDA r :
    Let(resolve_targets(s, src, src.owner, effect.target), LAMBDA tg :
      IF tg = <<>> THEN r.state = s /\ r.events = <<>>
      ELSE IF OnBoard(s, src)
      THEN /\ r.state = WithPermanent(
                           WithPermanent(s, tg[1].instance_id, -effect.amount),
                           src.instance_id, effect.amount)
           /\ PowerOf(r.state, {tg[1].instance_id, src.instance_id})
                 = PowerOf(s, {tg[1].instance_id, src.instance_id})
           /\ PowerOf(r.state, {tg[1].instance_id})
                 = PowerOf(s, {tg[1].instance_id}) - effect.amount
           /\ Len(r.events) = 2
      ELSE /\ r.state = WithPermanent(s, tg[1].instance_id, -effect.amount)
           /\ PowerOf(r.state, {tg[1].instance_id})
                 = PowerOf(s, {tg[1].instance_id}) - effect.amount
           /\ Len(r.events) = 1))

\* C32: steal power takes the amount from the permanent modifier of the
\* first resolved target and adds it to the permanent modifier of the
\* source, so that the two effective powers keep their sum; for a source
\* that is not on the board the target loses the amount and no card gains
\* it; when no target resolves the snapshot is returned as it was.
C32_StealPower ==
    \A effect \in InputsOfType("StealPowerEffect") :
        \A i \in 1..Len(EffectSources(Snapshot)) :
            StealsFromFirst(Snapshot, effect, EffectSources(Snapshot)[i])

\* C32 witness: the last effect applied stole 3 for a source that is in
\* player 0's hand, so that the one event is the target's loss, and a card
\* on the board carries the 3 it gained by an earlier steal from a card that
\* carries the loss.
C32_Witness ==
    /\ Len(events) = 1
    /\ events[1].type = "PowerChangedEvent"
    /\ events[1].new_power = events[1].old_power - 3
    /\ InSeq(events[1].source_card_id, IdsOf(players[0].hand))
    /\ \E c, d \in BoardCards :
          /\ c.permanent_power_modifier = 3
          /\ d.owner # c.owner
          /\ d.permanent_power_modifier \in {-3, -6}

\* the location whose lists hold the card
LocationHolding(s, card) ==
    CHOOSE l \in LocationIndexes :
        InSeq(card.instance_id, IdsOf(all_cards(s.locations[l])))

\* the summon effect has what it needs to add a card for this source
CanSummon(s, src) ==
    /\ OnBoard(s, src)
    /\ Len(s.locations[LocationHolding(s, src)].cards_by_player[src.owner])
          < LOCATION_CAPACITY
    /\ Len(s.cards_destroyed_this_game) >= 1

\* what ReviveEffect.apply returns for a source on or off the board
SummonsIffAble(s, effect, src) ==
    Let(effect_apply(effect, s, src, src.owner), LAMBDA r :
      /\ r.events = <<>>
      /\ IF CanSummon(s, src)
         THEN r.state =
                [s EXCEPT
                   !.next_instance_id = @ + 1,
                   !.locations[LocationHolding(s, src)].cards_by_player[src.owner] =
                      Append(@, [instance_id |-> s.next_instance_id,
                                 card_def |-> "shade",
                                 owner |-> src.owner,
                                 permanent_power_modifier |->
                                    effect.base_spirit_power
                                      + Len(s.cards_destroyed_this_game),
                                 ongoing_power_modifier |-> 0,
                                 revealed |-> TRUE])]
         ELSE r.state = s)

KnownConditions ==
    {"only_card_here", "destroyed_this_game", "moved_this_game",
     "moved_this_turn", "has_empty_slot"}

\* the named condition holds for a source on the board of s
ConditionHolds(s, condition, src) ==
    Let(s.locations[LocationHolding(s, src)].cards_by_player[src.owner],
        LAMBDA row :
      /\ condition = "only_card_here" => Len(row) = 1
      /\ condition = "destroyed_this_game" => s.cards_destroyed_this_game # <<>>
      /\ condition = "moved_this_game" => s.cards_moved_this_game # <<>>
      /\ condition = "moved_this_turn" => s.cards_moved_this_turn # <<>>
      /\ condition = "has_empty_slot" => Len(row) < LOCATION_CAPACITY)

\* what ConditionalPowerEffect.apply with target SELF returns for a source
\* on the board
ChangesIffCondition(s, effect, src) ==
    Let(effect_apply(effect, s, src, src.owner), LAMBDA r :
      /\ r.state # s <=> ConditionHolds(s, effect.condition, src)
      /\ r.events # <<>> <=> ConditionHolds(s, effect.condition, src)
      /\ ConditionHolds(s, effect.condition, src) =>
            /\ r.state = WithPermanent(s, src.instance_id, effect.amount)
            /\ Len(r.events) = 1
            /\ r.events[1].type = "PowerChangedEvent"
            /\ r.events[1].new_power = r.events[1].old_power + effect.amount)

\* C34: a conditional on-reveal power effect applied for a card on the
\* board changes power exactly when its named condition holds for the
\* source at that moment: the source is its owner's only card at its
\* location, a card was destroyed this game, a card was moved this game, a
\* card was moved this turn, or the owner has a free slot at the source's
\* location; a name that is none of the five counts as a condition that
\* holds; when the condition does not hold the snapshot is returned as it
\* was, with no event.
C34_ConditionalPower ==
    \A effect \in InputsOfType("ConditionalPowerEffect") :
        \A i \in 1..Len(all_board_cards(Snapshot)) :
            ChangesIffCondition(Snapshot, effect, all_board_cards(Snapshot)[i])

\* C34 witness: a card was moved in an earlier turn and none in this one,
\* a source on the board shares its location with a card of its owner, and
\* the five conditions and the unknown name do not all agree for it: moved
\* this game, free slot and the unknown name add 4, while moved this turn,
\* destroyed this game and only card here add nothing; the last effect
\* applied added 4 to that source.
C34_Witness ==
    /\ Len(events) = 1
    /\ events[1].type = "PowerChangedEvent"
    /\ events[1].new_power = events[1].old_power + 4
    /\ cards_moved_this_game # <<>>
    /\ cards_moved_this_turn = <<>>
    /\ cards_destroyed_this_game = <<>>
    /\ \E i \in 1..Len(all_board_cards(Snapshot)) :
          Let(all_board_cards(Snapshot)[i], LAMBDA src :
            /\ src.instance_id = events[1].card_instance_id
            /\ \E effect \in InputsOfType("ConditionalPowerEffect") :
                  effect.condition \notin KnownConditions
            /\ \A effect \in InputsOfType("ConditionalPowerEffect") :
                  effect_apply(effect, Snapshot, src, src.owner).events # <<>>
                     <=> effect.condition \in {"moved_this_game", "has_empty_slot",
                                               "has_full_moon"})

\* the target filters (engine/types.py: TargetFilter)
TargetFilters ==
    {"SELF", "SAME_LOCATION_FRIENDLY", "SAME_LOCATION_ENEMY", "SAME_LOCATION_ALL",
     "ALL_FRIENDLY", "ALL_ENEMY", "ALL_CARDS", "OTHER_LOCATIONS_FRIENDLY",
     "LEFTMOST_FRIENDLY", "RIGHTMOST_FRIENDLY", "ONE_SAME_LOCATION_FRIENDLY",
     "ONE_SAME_LOCATION_ENEMY", "FRIENDLY_WITH_DESTROY_TAG"}

\* the filters documented as excluding the source
ExcludingSource ==
    {"SAME_LOCATION_FRIENDLY", "SAME_LOCATION_ALL", "ALL_FRIENDLY", "ALL_CARDS",
     "ONE_SAME_LOCATION_FRIENDLY"}

FriendlyFilters ==
    {"SAME_LOCATION_FRIENDLY", "ALL_FRIENDLY", "OTHER_LOCATIONS_FRIENDLY",
     "LEFTMOST_FRIENDLY", "RIGHTMOST_FRIENDLY", "ONE_SAME_LOCATION_FRIENDLY",
     "FRIENDLY_WITH_DESTROY_TAG"}

EnemyFilters == {"SAME_LOCATION_ENEMY", "ALL_ENEMY", "ONE_SAME_LOCATION_ENEMY"}

SingleFilters ==
    {"LEFTMOST_FRIENDLY", "RIGHTMOST_FRIENDLY", "ONE_SAME_LOCATION_FRIENDLY",
     "ONE_SAME_LOCATION_ENEMY"}

\* the filters that name the source's own location
SameLocationFilters ==
    {"SAME_LOCATION_FRIENDLY", "SAME_LOCATION_ENEMY", "SAME_LOCATION_ALL",
     "ONE_SAME_LOCATION_FRIENDLY", "ONE_SAME_LOCATION_ENEMY"}

\* the place of a board card: location, then player list, then position
PlaceOf(s, card) ==
    Let(CHOOSE k \in LocationIndexes \X PlayerIds \X (1..LOCATION_CAPACITY) :
            /\ k[3] <= Len(s.locations[k[1]].cards_by_player[k[2]])
            /\ s.locations[k[1]].cards_by_player[k[2]][k[3]] = card,
        LAMBDA k : 100 * k[1] + 10 * k[2] + k[3])

\* the cards are cards of the board of s, listed in the order of their
\* places
InBoardOrder(s, cards) ==
    /\ \A i \in 1..Len(cards) : InSeq(cards[i], all_board_cards(s))
    /\ \A i \in 1..(Len(cards) - 1) :
          PlaceOf(s, cards[i]) < PlaceOf(s, cards[i + 1])

\* what _resolve_targets returns for one filter and one source
ResolvesAsDocumented(s, src, filter) ==
    Let(resolve_targets(s, src, src.owner, filter), LAMBDA r :
      /\ filter # "SELF" => InBoardOrder(s, r)
      /\ filter \in ExcludingSource =>
            ~InSeq(src.instance_id, IdsOf(r))
      /\ filter \in FriendlyFilters =>
            \A i \in 1..Len(r) : r[i].owner = src.owner
      /\ filter \in EnemyFilters =>
            \A i \in 1..Len(r) : r[i].owner = 1 - src.owner
      /\ filter \in SingleFilters => Len(r) <= 1
      /\ (filter \in SameLocationFilters /\ ~OnBoard(s, src)) => r = <<>>
      /\ (filter = "OTHER_LOCATIONS_FRIENDLY" /\ ~OnBoard(s, src)) =>
            r = SeqFilter(all_board_cards(s), LAMBDA c : c.owner = src.owner))

\* C36: the target resolver returns a sequence for every filter and source,
\* in location order 0, 1, 2 and then in position order; the filters
\* documented as excluding the source do not return it, friendly filters
\* return cards of the source player only, enemy filters cards of the other
\* player only, LEFTMOST, RIGHTMOST and ONE_* at most one card; and the
\* filters that cannot do without the source's location, SAME_LOCATION_* and
\* ONE_SAME_LOCATION_*, return the empty sequence for a source that is not
\* on the board (OTHER_LOCATIONS_FRIENDLY has every location as the other
\* locations then).
C36_Resolver ==
    \A filter \in TargetFilters \cup {"NO_SUCH_FILTER"} :
        \A i \in 1..Len(EffectSources(Snapshot)) :
            ResolvesAsDocumented(Snapshot, EffectSources(Snapshot)[i], filter)

\* C36 witness: after an effect was applied and found its target, player 0
\* has cards at two locations and player 1 a card on the board; for the
\* card in player 0's hand, which is on no location, ALL_FRIENDLY resolves
\* to cards of more than one location and SAME_LOCATION_FRIENDLY to none.
C36_Witness ==
    /\ turn_count > 0
    /\ events # <<>>
    /\ players[0].hand # <<>>
    /\ \E c \in BoardCards : c.owner = 1
    /\ Let(resolve_targets(Snapshot, players[0].hand[1], 0, "ALL_FRIENDLY"),
           LAMBDA r :
             /\ Len(r) >= 2
             /\ PlaceOf(Snapshot, r[1]) + 100 <= PlaceOf(Snapshot, r[Len(r)]))
    /\ resolve_targets(Snapshot, players[0].hand[1], 0, "SAME_LOCATION_FRIENDLY")
          = <<>>

----------------------------------------------------------------------------
(* The game driven by start_turn and resolve_turn (Spec, SpecStep).        *)

\* C35: over start_turn and resolve_turn calls in any order the records of
\* the game only grow: every id on cards_destroyed_this_game or on
\* cards_moved_this_game stays there, every id on cards_moved_this_turn is
\* on cards_moved_this_game, and so "destroyed this game" and "moved this
\* game", once true, are true after every later call.
C35_RecordsGrow ==
    /\ [](SeqToSet(cards_moved_this_turn) \subseteq SeqToSet(cards_moved_this_game))
    /\ [][/\ SeqToSet(cards_destroyed_this_game)
                \subseteq SeqToSet(cards_destroyed_this_game')
          /\ SeqToSet(cards_moved_this_game)
                \subseteq SeqToSet(cards_moved_this_game')
          /\ has_destroyed_card_this_game(Snapshot)
                => has_destroyed_card_this_game(Snapshot')
          /\ has_moved_card_this_game(Snapshot)
                => has_moved_card_this_game(Snapshot')]_vars

\* C35 witness: a turn was started after a turn in which a card was moved
\* and after a card was destroyed: the record of the turn is empty and the
\* two records of the game are not.
C35_Witness ==
    /\ events # <<>>
    /\ events[1].type = "TurnStartedEvent"
    /\ cards_moved_this_turn = <<>>
    /\ cards_moved_this_game # <<>>
    /\ cards_destroyed_this_game # <<>>

\* C37: in every snapshot reachable from create_game the card instances in
\* the decks, the hands and the locations, together with the ids recorded as
\* destroyed, are as many as the ids minted (the cards created with the game
\* and the cards summoned since); and a call takes from the containers the
\* cards it records as destroyed and no other, and adds the cards it
\* summons, with the ids minted in the call, and no other.
C37_CardsConserved ==
    /\ [](Len(ContainerIds) + Len(cards_destroyed_this_game) = next_instance_id)
    /\ [][SeqToSet(ContainerIds') =
             (SeqToSet(ContainerIds) \ SeqToSet(cards_destroyed_this_game'))
                \cup (next_instance_id..(next_instance_id' - 1))]_vars

\* C37 witness: the last resolution summoned a card (a shade with the
\* latest id and a modifier, on the board) after a card was destroyed, and
\* cards are left in a hand.
C37_Witness ==
    /\ cards_destroyed_this_game # <<>>
    /\ \E i \in 1..Len(events) : events[i].type = "CardRevealedEvent"
    /\ \E c \in BoardCards :
          /\ c.instance_id = next_instance_id - 1
          /\ c.card_def = "shade"
          /\ c.permanent_power_modifier
                = BASE_SPIRIT_POWER + Len(cards_destroyed_this_game)
    /\ players[0].hand # <<>>

----------------------------------------------------------------------------
(* The reveal of a card the other player's effect has acted on             *)
(* (SpecDisplace).                                                         *)

\* C38: after every resolve_turn every card on the board has its revealed
\* flag set, also a card placed in this resolution that the other player's
\* on-reveal effect moved to another location before its own reveal.
C38_AllRevealed ==
    phase \in {"TURN_END", "GAME_OVER"} => \A c \in BoardCards : c.revealed

\* the location the event log puts a card at just before event j: the
\* location of its last move before j, else the location it was played at,
\* NoLocation when it was destroyed before j or never played
RECURSIVE LoggedLocation(_, _, _)
LoggedLocation(evs, j, id) ==
    IF j <= 1 THEN NoLocation
    ELSE Let(evs[j - 1], LAMBDA e :
           IF e.type = "CardDestroyedEvent" /\ e.card_instance_id = id
           THEN NoLocation
           ELSE IF e.type = "CardMovedEvent" /\ e.card_instance_id = id
           THEN e.to_location
           ELSE IF e.type = "CardPlayedEvent" /\ e.card_instance_id = id
           THEN e.location
           ELSE LoggedLocation(evs, j - 1, id))

\* C39: every card-revealed event of a resolution names the location its
\* card is at when the event is emitted: the card was placed in this call
\* and no effect revealed before it has destroyed it or moved it elsewhere.
C39_RevealedWhereItIs ==
    \A j \in 1..Len(events) :
        events[j].type = "CardRevealedEvent" =>
            LoggedLocation(events, j, events[j].card_instance_id)
                = events[j].location

----------------------------------------------------------------------------
(* Calls made after the game is over (SpecStep).                           *)

\* C40: once the phase is GAME_OVER and the result is terminal, no call of
\* start_turn, resolve_turn or step changes the result, the board, a hand
\* or a player's energy.
C40_FinalStable ==
    [][(phase = "GAME_OVER" /\ result # "IN_PROGRESS") =>
          /\ result' = result
          /\ locations' = locations
          /\ \A p \in PlayerIds :
                /\ players'[p].hand = players[p].hand
                /\ players'[p].energy = players[p].energy]_vars

============================================================================
